---- MODULE Spec2Model ----
(***************************************************************************)
(* Model of the DMS backend: the Dexcom OAuth token lifecycle              *)
(* (backend/app/services/token_storage.py, backend/app/routers/dexcom.py,  *)
(* backend/app/models/database.py) and the sliding-window rate limiter     *)
(* (backend/app/services/rate_limiter.py).                                 *)
(*                                                                         *)
(* Time is counted in whole seconds.  Request handlers are coroutines on   *)
(* one event loop: they interleave only at an awaited upstream call, so a  *)
(* handler is one action up to its await and one action after it.          *)
(***************************************************************************)
EXTENDS Integers, Naturals, Sequences, FiniteSets, Bags, TLC

VARIABLES
    clock,        \* the wall clock (datetime.now / func.now / utcnow), seconds
    users,        \* table "users": sequence of rows, id = index
    tokens,       \* table "dexcom_tokens": sequence of rows, id = index
    issued,       \* upstream authorization server: number of grants issued
    reqs,         \* bag of the handlers suspended at their upstream await
    last,         \* the outcome of the operation that ran most recently
    request_log,  \* RateLimiter._request_log: key -> list of timestamps
    admitted,     \* history: per key, the admissions of the trailing window
    app           \* the process: its settings, its phase, its encryption service

vars == <<clock, users, tokens, issued, reqs, last, request_log, admitted, app>>

----------------------------------------------------------------------------
(* Bounds of the model *)

MaxGrants == 2           \* grants the upstream issues
MaxInFlight == 1         \* handlers suspended at an upstream call at once

MaxClockRL == 5          \* the rate limiter's clock stops here
MaxCoroutines == 2       \* rate limiter calls in flight at once
MaxRefreshes == 2        \* refresh handlers suspended at once
MaxAnswers == 3          \* grants issued while answers are in transit
max_requests == 2        \* RateLimiter(max_requests=...)
window_seconds == 2      \* RateLimiter(window_seconds=...)

Threshold == 300         \* threshold_seconds of is_expiring_soon
ExpiresIns == {301}      \* expires_in the upstream answers with, in seconds
ErrorStatuses == {400, 500}  \* non-200 answers of the upstream token endpoint
States == {"None"}       \* the optional CSRF state query parameter, here absent

\* the instants at which the system is observed.  A grant of 301 s stored
\* at 0 is one second short of the threshold at 0, on it at 1 and expired at
\* 301; one stored at 1 is one second short of expiry at 301.
Instants == {0, 1, Threshold + 1}
Principals == {1, 2}     \* X-User-ID header values
RLKeys == {"1", "2"}     \* rate-limit keys: user ids as strings

\* the handlers suspended at an await, and one of them added or removed
InFlight(rs) == BagToSet(rs)
Suspend(rs, r) == rs (+) SetToBag({r})
Resume(rs, r) == rs (-) SetToBag({r})
NoOp == [op |-> "none"]

----------------------------------------------------------------------------
(* utils/encryption.py *)

ENCRYPTION_KEY == "K1"

\* A str is a sequence of code points and bytes a sequence of 0..255.
\* str.encode(): UTF-8, one byte below U+0080, two below U+0800, three above
RECURSIVE utf8_encode(_)
utf8_encode(s) ==
    IF s = <<>> THEN <<>>
    ELSE LET c == Head(s)
             head == IF c < 128 THEN <<c>>
                     ELSE IF c < 2048 THEN <<192 + (c \div 64), 128 + (c % 64)>>
                     ELSE <<224 + (c \div 4096), 128 + ((c \div 64) % 64),
                            128 + (c % 64)>>
         IN  head \o utf8_encode(Tail(s))

\* the length of the sequence a lead byte starts, 0 for a byte that starts none
utf8_width(b) ==
    IF b < 128 THEN 1
    ELSE IF b \in 192..223 THEN 2
    ELSE IF b \in 224..239 THEN 3
    ELSE 0

RECURSIVE utf8_valid(_)
utf8_valid(b) ==
    IF b = <<>> THEN TRUE
    ELSE LET w == utf8_width(b[1])
         IN  /\ w > 0
             /\ Len(b) >= w
             /\ \A i \in 2..w : b[i] \in 128..191
             /\ utf8_valid(SubSeq(b, w + 1, Len(b)))

RECURSIVE utf8_chars(_)
utf8_chars(b) ==
    IF b = <<>> THEN <<>>
    ELSE LET w == utf8_width(b[1])
             c == IF w = 1 THEN b[1]
                  ELSE IF w = 2 THEN (b[1] - 192) * 64 + (b[2] - 128)
                  ELSE (b[1] - 224) * 4096 + (b[2] - 128) * 64 + (b[3] - 128)
         IN  <<c>> \o utf8_chars(SubSeq(b, w + 1, Len(b)))

\* bytes.decode(): UTF-8
utf8_decode(b) == IF utf8_valid(b) THEN utf8_chars(b) ELSE "UnicodeDecodeError"

\* cryptography.fernet: Fernet(key).encrypt(data) is a token, here the
\* version byte 0x80, a byte that stands for the signature under the key,
\* and the data enciphered byte by byte; the token is text, kept as it is
KeyByte(key) == IF key = "K1" THEN 1 ELSE IF key = "K2" THEN 2 ELSE 0

\* every byte of data moved by d, modulo 256
RECURSIVE Shifted(_, _)
Shifted(data, d) ==
    IF data = <<>> THEN <<>>
    ELSE <<(Head(data) + d) % 256>> \o Shifted(Tail(data), d)

Fernet_encrypt(key, data) == <<128, KeyByte(key)>> \o Shifted(data, KeyByte(key))

\* Fernet(key).decrypt(token): the data of a token made under this key,
\* InvalidToken for any other token
Fernet_decrypt(key, token) ==
    IF Len(token) >= 2 /\ token[1] = 128 /\ token[2] = KeyByte(key)
    THEN Shifted(SubSeq(token, 3, Len(token)), 256 - KeyByte(key))
    ELSE "InvalidToken"

EncryptionService_encrypt(key, plaintext) ==
    LET encrypted_bytes == Fernet_encrypt(key, utf8_encode(plaintext))
    IN  encrypted_bytes

\* variant: the decrypted bytes are decoded one byte to a character
EncryptionService_decrypt_latin1(key, ciphertext) ==
    LET decrypted_bytes == Fernet_decrypt(key, ciphertext)
    IN  IF decrypted_bytes = "InvalidToken" THEN "InvalidToken"
        ELSE decrypted_bytes

EncryptionService_decrypt(key, ciphertext) ==
    LET decrypted_bytes == Fernet_decrypt(key, ciphertext)
    IN  IF decrypted_bytes = "InvalidToken" THEN "InvalidToken"
        ELSE utf8_decode(decrypted_bytes)

encrypt(plaintext) == EncryptionService_encrypt(ENCRYPTION_KEY, plaintext)

decrypt(ciphertext) == EncryptionService_decrypt(ENCRYPTION_KEY, ciphertext)

----------------------------------------------------------------------------
(* models/database.py: DexcomToken *)

\* variant: the comparison written with > instead of >=
is_expired_strict(rec, now) == now > rec.expires_at

is_expired(rec, now) == now >= rec.expires_at

\* variant: the comparison written with > instead of >=
is_expiring_soon_strict(rec, now, threshold_seconds) ==
    now > rec.expires_at - threshold_seconds

is_expiring_soon(rec, now, threshold_seconds) ==
    now >= rec.expires_at - threshold_seconds

calculate_expires_at(now, expires_in) == now + expires_in

(* The upstream token endpoint: the secrets of the n-th grant it issues,
   the strings "A1", "A2", ... and "R1", "R2", ..., and the grant *)
AccessSecret(n) == <<65, 48 + n>>
RefreshSecret(n) == <<82, 48 + n>>

OAuthToken(n, e) ==
    [access_token |-> AccessSecret(n), refresh_token |-> RefreshSecret(n),
     token_type |-> "Bearer", expires_in |-> e]

----------------------------------------------------------------------------
(* services/token_storage.py: the queries *)

\* variant: filter(user_id == uid) alone
NonRevoked_any(toks, uid) == {i \in 1..Len(toks) : toks[i].user_id = uid}

\* filter(user_id == uid, is_revoked == False)
NonRevoked(toks, uid) ==
    {i \in 1..Len(toks) : toks[i].user_id = uid /\ ~toks[i].is_revoked}

\* variant: the is_revoked filter left out of the query
FirstRows_unfiltered(toks, uid) == {i \in 1..Len(toks) : toks[i].user_id = uid}

\* ... .first() with no ORDER BY: the database may answer with any match
FirstRows(toks, uid) == NonRevoked(toks, uid)

\* variant: the is_revoked filter left out of the query
LatestRows_unfiltered(toks, uid) ==
    LET mine == {i \in 1..Len(toks) : toks[i].user_id = uid}
    IN  {i \in mine : \A j \in mine : toks[j].created_at <= toks[i].created_at}

\* ... .order_by(created_at.desc()).first()
LatestRows(toks, uid) ==
    {i \in NonRevoked(toks, uid) :
        \A j \in NonRevoked(toks, uid) : toks[j].created_at <= toks[i].created_at}

\* variant: the query may miss a row that is there
RowOrNone_missed(rows) == rows \cup {0}

\* the row a query answers with, 0 for None
RowOrNone(rows) == IF rows = {} THEN {0} ELSE rows

\* variant: the refresh secret is stored as it came, without encrypt
store_tokens_plain(toks, existing, user_id, oauth_token, state, scope, now) ==
    LET encrypted_access == encrypt(oauth_token.access_token)
        encrypted_refresh == oauth_token.refresh_token
        expires_at == calculate_expires_at(now, oauth_token.expires_in)
    IN  IF existing # 0
        THEN [toks EXCEPT ![existing] =
                [@ EXCEPT !.access_token_encrypted = encrypted_access,
                          !.refresh_token_encrypted = encrypted_refresh,
                          !.token_type = oauth_token.token_type,
                          !.expires_in = oauth_token.expires_in,
                          !.expires_at = expires_at,
                          !.scope = scope,
                          !.updated_at = now]]
        ELSE Append(toks,
                [user_id |-> user_id,
                 access_token_encrypted |-> encrypted_access,
                 refresh_token_encrypted |-> encrypted_refresh,
                 token_type |-> oauth_token.token_type,
                 expires_in |-> oauth_token.expires_in,
                 expires_at |-> expires_at,
                 state |-> state,
                 scope |-> scope,
                 is_revoked |-> FALSE,
                 revoked_at |-> "None",
                 created_at |-> now,
                 updated_at |-> now])

\* variant: a new row on every call, the existing row left as it is
store_tokens_insert(toks, existing, user_id, oauth_token, state, scope, now) ==
    Append(toks,
       [user_id |-> user_id,
        access_token_encrypted |-> encrypt(oauth_token.access_token),
        refresh_token_encrypted |-> encrypt(oauth_token.refresh_token),
        token_type |-> oauth_token.token_type,
        expires_in |-> oauth_token.expires_in,
        expires_at |-> calculate_expires_at(now, oauth_token.expires_in),
        state |-> state,
        scope |-> scope,
        is_revoked |-> FALSE,
        revoked_at |-> "None",
        created_at |-> now,
        updated_at |-> now])

store_tokens(toks, existing, user_id, oauth_token, state, scope, now) ==
    LET encrypted_access == encrypt(oauth_token.access_token)
        encrypted_refresh == encrypt(oauth_token.refresh_token)
        expires_at == calculate_expires_at(now, oauth_token.expires_in)
    IN  IF existing # 0
        THEN [toks EXCEPT ![existing] =
                [@ EXCEPT !.access_token_encrypted = encrypted_access,
                          !.refresh_token_encrypted = encrypted_refresh,
                          !.token_type = oauth_token.token_type,
                          !.expires_in = oauth_token.expires_in,
                          !.expires_at = expires_at,
                          !.scope = scope,
                          !.updated_at = now]]
        ELSE Append(toks,
                [user_id |-> user_id,
                 access_token_encrypted |-> encrypted_access,
                 refresh_token_encrypted |-> encrypted_refresh,
                 token_type |-> oauth_token.token_type,
                 expires_in |-> oauth_token.expires_in,
                 expires_at |-> expires_at,
                 state |-> state,
                 scope |-> scope,
                 is_revoked |-> FALSE,
                 revoked_at |-> "None",
                 created_at |-> now,
                 updated_at |-> now])

\* the row store_tokens returns after commit and refresh
StoredRow(toks, existing) == IF existing # 0 THEN existing ELSE Len(toks) + 1

\* variant: the is_revoked filter left out, every row of the user is stamped
revoke_tokens_unfiltered(toks, user_id, now) ==
    [i \in 1..Len(toks) |->
        IF toks[i].user_id = user_id
        THEN [toks[i] EXCEPT !.is_revoked = TRUE, !.revoked_at = now,
                             !.updated_at = now]
        ELSE toks[i]]

revoke_tokens(toks, user_id, now) ==
    [i \in 1..Len(toks) |->
        IF toks[i].user_id = user_id /\ ~toks[i].is_revoked
        THEN [toks[i] EXCEPT !.is_revoked = TRUE, !.revoked_at = now,
                             !.updated_at = now]
        ELSE toks[i]]

\* services/dexcom_api.py: DexcomAPIClient.__init__(self, settings)
DexcomAPIClient(args) == IF Len(args) = 1 THEN "client" ELSE "TypeError"

\* services/token_storage.py: get_or_create_user; the id found, 0 to create
get_or_create_user(us, firebase_uid, email) ==
    LET found ==
            IF firebase_uid # "None"
            THEN {i \in 1..Len(us) : us[i].firebase_uid = firebase_uid}
            ELSE IF email # "None"
            THEN {i \in 1..Len(us) : us[i].email = email}
            ELSE {}
    IN  IF found = {} THEN 0 ELSE CHOOSE i \in found : \A j \in found : i <= j

\* variant: the except clause swallows the failure and the stale secret is returned
get_valid_token_swallow(toks, row, auto_refresh, now) ==
    IF row = 0
    THEN [status |-> 401, detail |-> "no_authorization", access |-> "None",
          rec |-> 0, attempts |-> 0, called |-> FALSE]
    ELSE [status |-> 200,
          detail |-> IF auto_refresh /\ is_expiring_soon(toks[row], now, 300)
                     THEN "TypeError" ELSE "ok",
          access |-> decrypt(toks[row].access_token_encrypted),
          rec |-> row,
          attempts |-> IF auto_refresh /\ is_expiring_soon(toks[row], now, 300)
                       THEN 1 ELSE 0,
          called |-> FALSE]

\* services/token_storage.py: get_valid_token, from the row its query answered
\* variant: with auto_refresh the refresh is made whatever the expiry
get_valid_token_eager(toks, row, auto_refresh, now) ==
    IF row = 0
    THEN [status |-> 401, detail |-> "no_authorization", access |-> "None",
          rec |-> 0, attempts |-> 0, called |-> FALSE]
    ELSE IF auto_refresh
    THEN [status |-> 401, detail |-> "TypeError",
          access |-> "None", rec |-> row, attempts |-> 1, called |-> FALSE]
    ELSE [status |-> 200, detail |-> "ok",
          access |-> decrypt(toks[row].access_token_encrypted),
          rec |-> row, attempts |-> 0, called |-> FALSE]

\* variant: the auto_refresh flag ignored, the refresh made on expiry alone
get_valid_token_forced(toks, row, auto_refresh, now) ==
    IF row = 0
    THEN [status |-> 401, detail |-> "no_authorization", access |-> "None",
          rec |-> 0, attempts |-> 0, called |-> FALSE]
    ELSE IF is_expiring_soon(toks[row], now, 300)
    THEN [status |-> 401, detail |-> "TypeError",
          access |-> "None", rec |-> row, attempts |-> 1, called |-> FALSE]
    ELSE [status |-> 200, detail |-> "ok",
          access |-> decrypt(toks[row].access_token_encrypted),
          rec |-> row, attempts |-> 0, called |-> FALSE]

get_valid_token(toks, row, auto_refresh, now) ==
    IF row = 0
    THEN [status |-> 401, detail |-> "no_authorization", access |-> "None",
          rec |-> 0, attempts |-> 0, called |-> FALSE]
    ELSE IF auto_refresh /\ is_expiring_soon(toks[row], now, 300)
    THEN LET refresh_token == decrypt(toks[row].refresh_token_encrypted)
             dexcom_client == DexcomAPIClient(<<>>)
         IN  \* try: every way through the block raises, and the except
             \* clause turns whatever was raised into 401
             [status |-> 401,
              detail |-> IF refresh_token = "InvalidToken" THEN "InvalidToken"
                         ELSE IF dexcom_client = "TypeError" THEN "TypeError"
                         ELSE "AttributeError",  \* the coroutine is not awaited
              access |-> "None", rec |-> row, attempts |-> 1, called |-> FALSE]
    ELSE LET access_token == decrypt(toks[row].access_token_encrypted)
         IN  IF access_token = "InvalidToken"
             THEN [status |-> 500, detail |-> "InvalidToken", access |-> "None",
                   rec |-> row, attempts |-> 0, called |-> FALSE]
             ELSE [status |-> 200, detail |-> "ok", access |-> access_token,
                   rec |-> row, attempts |-> 0, called |-> FALSE]

\* services/token_storage.py: get_token_info, and routers/dexcom.py: get_auth_status
\* variant: the refresh secret copied into the answer
get_auth_status_secret(toks, row, now) ==
    IF row = 0
    THEN [authorized |-> FALSE]
    ELSE [authorized |-> TRUE,
          expires_at |-> toks[row].expires_at,
          is_expired |-> is_expired(toks[row], now),
          is_expiring_soon |-> is_expiring_soon(toks[row], now, Threshold),
          scope |-> toks[row].scope,
          refresh_token |-> decrypt(toks[row].refresh_token_encrypted)]

get_auth_status(toks, row, now) ==
    IF row = 0
    THEN [authorized |-> FALSE]
    ELSE [authorized |-> TRUE,
          expires_at |-> toks[row].expires_at,
          is_expired |-> is_expired(toks[row], now),
          is_expiring_soon |-> is_expiring_soon(toks[row], now, Threshold),
          scope |-> toks[row].scope]

----------------------------------------------------------------------------
(* The token lifecycle: initial state and actions *)

Init ==
    /\ clock = 0
    /\ users = <<>>
    /\ tokens = <<>>
    /\ issued = 0
    /\ reqs = EmptyBag
    /\ last = NoOp
    /\ request_log = <<>>
    /\ admitted = [k \in RLKeys |-> <<>>]
    /\ app = [ENCRYPTION_KEY |-> ENCRYPTION_KEY, phase |-> "serving",
              encryption_service |-> "None"]

\* time passes
Tick ==
    /\ \E t \in Instants : t > clock /\ clock' = t
    /\ last' = NoOp
    /\ UNCHANGED <<app, users, tokens, issued, reqs, request_log, admitted>>

\* variant: every failure reported as a bad gateway
exchange_code_for_token_gateway(status_code) ==
    IF status_code # 200
    THEN [raised |-> "DexcomAPIError", status_code |-> 502,
          message |-> "Failed to exchange code for token"]
    ELSE [raised |-> "None", status_code |-> 200, message |-> "json"]

\* services/dexcom_api.py: exchange_code_for_token, from the status of the
\* upstream's answer to what the call raises
exchange_code_for_token(status_code) ==
    IF status_code # 200
    THEN [raised |-> "DexcomAPIError", status_code |-> status_code,
          message |-> "Failed to exchange code for token"]
    ELSE [raised |-> "None", status_code |-> 200, message |-> "json"]

\* routers/dexcom.py: oauth_callback and exchange_code up to the await of
\* client.exchange_code_for_token(code); the two handlers run the same code
\* up to their answer, which of them it is shows in ExchangeOk/ExchangeFail
ExchangeStart(p, state) ==
    /\ BagCardinality(reqs) < MaxInFlight
    /\ reqs' = Suspend(reqs, [pc |-> "exchange", user |-> p, state |-> state,
                              refresh_token |-> <<>>])
    /\ last' = [op |-> "await"]
    /\ UNCHANGED <<app, clock, users, tokens, issued, request_log, admitted>>

\* ... the upstream answers 200 with a grant: get_or_create_user, store_tokens
ExchangeOk(r, e, via) ==
    /\ r \in InFlight(reqs)
    /\ r.pc = "exchange"
    /\ issued < MaxGrants
    /\ LET grant == OAuthToken(issued + 1, e)
           found == get_or_create_user(users, "None", "None")
           uid == IF found = 0 THEN Len(users) + 1 ELSE found
       IN  /\ users' = IF found = 0
                       THEN Append(users, [firebase_uid |-> "None", email |-> "None",
                                           is_active |-> TRUE])
                       ELSE users
           /\ \E existing \in RowOrNone(FirstRows(tokens, uid)) :
                /\ tokens' = store_tokens(tokens, existing, uid, grant,
                                          r.state, "offline_access", clock)
                /\ last' = [op |-> via, user |-> r.user,
                            status |-> IF via = "callback" THEN 307 ELSE 200,
                            ok |-> TRUE, user_id |-> uid,
                            rec |-> StoredRow(tokens, existing),
                            raised |-> "None", timeout |-> FALSE]
    /\ issued' = issued + 1
    /\ reqs' = Resume(reqs, r)
    /\ UNCHANGED <<app, clock, request_log, admitted>>

\* ... the upstream answers non-200: DexcomAPIError
ExchangeFail(r, code, via) ==
    /\ r \in InFlight(reqs)
    /\ r.pc = "exchange"
    /\ LET res == exchange_code_for_token(code)
       IN  last' = [op |-> via, user |-> r.user,
                    status |-> IF via = "callback" THEN 307 ELSE res.status_code,
                    ok |-> FALSE, raised |-> res.raised, timeout |-> FALSE,
                    upstream |-> code, error_status |-> res.status_code]
    /\ reqs' = Resume(reqs, r)
    /\ UNCHANGED <<app, clock, users, tokens, issued, request_log, admitted>>

\* ... the upstream does not answer within the timeout of the http client:
\* the awaited post raises httpx.TimeoutException.  oauth_callback catches it
\* with "except Exception" and redirects; exchange_code has no clause for it.
ExchangeTimeout(r, via) ==
    /\ r \in InFlight(reqs)
    /\ r.pc = "exchange"
    /\ last' = [op |-> via, user |-> r.user,
                status |-> IF via = "callback" THEN 307 ELSE 500,
                ok |-> FALSE, raised |-> "TimeoutException", timeout |-> TRUE]
    /\ reqs' = Resume(reqs, r)
    /\ UNCHANGED <<app, clock, users, tokens, issued, request_log, admitted>>

\* variant: one refresh per principal, a second one for the same principal
\* waits for the first
RefreshStartUpTo_exclusive(p, capacity) ==
    /\ \A r \in InFlight(reqs) : ~(r.pc = "refresh" /\ r.user = p)
    /\ \E row \in RowOrNone(FirstRows(tokens, p)) :
         IF row = 0
         THEN /\ last' = [op |-> "refresh", user |-> p, status |-> 401, ok |-> FALSE,
                          raised |-> "HTTPException", timeout |-> FALSE]
              /\ UNCHANGED reqs
         ELSE /\ BagCardinality(reqs) < capacity
              /\ reqs' = Suspend(reqs,
                    [pc |-> "refresh", user |-> p, state |-> "None",
                     refresh_token |-> decrypt(tokens[row].refresh_token_encrypted)])
              /\ last' = [op |-> "await"]
    /\ UNCHANGED <<app, clock, users, tokens, issued, request_log, admitted>>

\* routers/dexcom.py: refresh_token up to the await of
\* client.refresh_access_token(refresh_token_str), while fewer than
\* capacity handlers are suspended
RefreshStartUpTo(p, capacity) ==
    /\ \E row \in RowOrNone(FirstRows(tokens, p)) :
         IF row = 0
         THEN /\ last' = [op |-> "refresh", user |-> p, status |-> 401, ok |-> FALSE,
                          raised |-> "HTTPException", timeout |-> FALSE]
              /\ UNCHANGED reqs
         ELSE /\ BagCardinality(reqs) < capacity
              /\ reqs' = Suspend(reqs,
                    [pc |-> "refresh", user |-> p, state |-> "None",
                     refresh_token |-> decrypt(tokens[row].refresh_token_encrypted)])
              /\ last' = [op |-> "await"]
    /\ UNCHANGED <<app, clock, users, tokens, issued, request_log, admitted>>

RefreshStart(p) == RefreshStartUpTo(p, MaxInFlight)

\* ... the upstream answers 200 with a grant: store_tokens(user_id, new grant)
RefreshOk(r, e) ==
    /\ r \in InFlight(reqs)
    /\ r.pc = "refresh"
    /\ issued < MaxGrants
    /\ LET grant == OAuthToken(issued + 1, e)
       IN  \E existing \in RowOrNone(FirstRows(tokens, r.user)) :
                /\ tokens' = store_tokens(tokens, existing, r.user, grant,
                                          "None", "offline_access", clock)
                /\ last' = [op |-> "refresh", user |-> r.user, status |-> 200,
                            ok |-> TRUE, user_id |-> r.user,
                            rec |-> StoredRow(tokens, existing),
                            raised |-> "None", timeout |-> FALSE]
    /\ issued' = issued + 1
    /\ reqs' = Resume(reqs, r)
    /\ UNCHANGED <<app, clock, users, request_log, admitted>>

\* ... the upstream answers non-200: DexcomAPIError, passed through
RefreshFail(r, code) ==
    /\ r \in InFlight(reqs)
    /\ r.pc = "refresh"
    /\ last' = [op |-> "refresh", user |-> r.user, status |-> code, ok |-> FALSE,
                raised |-> "DexcomAPIError", timeout |-> FALSE]
    /\ reqs' = Resume(reqs, r)
    /\ UNCHANGED <<app, clock, users, tokens, issued, request_log, admitted>>

\* ... the upstream does not answer within the timeout of the http client:
\* httpx.TimeoutException, for which refresh_token has no except clause
RefreshTimeout(r) ==
    /\ r \in InFlight(reqs)
    /\ r.pc = "refresh"
    /\ last' = [op |-> "refresh", user |-> r.user, status |-> 500, ok |-> FALSE,
                raised |-> "TimeoutException", timeout |-> TRUE]
    /\ reqs' = Resume(reqs, r)
    /\ UNCHANGED <<app, clock, users, tokens, issued, request_log, admitted>>

\* services/token_storage.py: get_valid_token(user_id, auto_refresh)
GetValidToken(p, auto_refresh) ==
    /\ \E row \in RowOrNone(LatestRows(tokens, p)) :
         last' = [op |-> "get_valid_token", user |-> p, auto |-> auto_refresh,
                  result |-> get_valid_token(tokens, row, auto_refresh, clock)]
    /\ UNCHANGED <<app, clock, users, tokens, issued, reqs, request_log, admitted>>

\* routers/dexcom.py: get_auth_status
GetStatus(p) ==
    /\ \E row \in RowOrNone(FirstRows(tokens, p)) :
         last' = [op |-> "status", user |-> p, status |-> 200,
                  result |-> get_auth_status(tokens, row, clock)]
    /\ UNCHANGED <<app, clock, users, tokens, issued, reqs, request_log, admitted>>

\* routers/dexcom.py: revoke_authorization
Revoke(p) ==
    /\ tokens' = revoke_tokens(tokens, p, clock)
    /\ last' = [op |-> "revoke", user |-> p, status |-> 200]
    /\ UNCHANGED <<app, clock, users, issued, reqs, request_log, admitted>>

Next ==
    \/ Tick
    \/ \E p \in Principals, state \in States : ExchangeStart(p, state)
    \/ \E r \in InFlight(reqs), e \in ExpiresIns, via \in {"exchange", "callback"} :
          ExchangeOk(r, e, via)
    \/ \E r \in InFlight(reqs), code \in ErrorStatuses, via \in {"exchange", "callback"} :
          ExchangeFail(r, code, via)
    \/ \E p \in Principals : RefreshStart(p)
    \/ \E r \in InFlight(reqs), e \in ExpiresIns : RefreshOk(r, e)
    \/ \E r \in InFlight(reqs), code \in ErrorStatuses : RefreshFail(r, code)
    \/ \E r \in InFlight(reqs), via \in {"exchange", "callback"} :
          ExchangeTimeout(r, via)
    \/ \E r \in InFlight(reqs) : RefreshTimeout(r)
    \/ \E p \in Principals, auto_refresh \in BOOLEAN : GetValidToken(p, auto_refresh)
    \/ \E p \in Principals : GetStatus(p)
    \/ \E p \in Principals : Revoke(p)

Spec == Init /\ [][Next]_vars

----------------------------------------------------------------------------
(* services/rate_limiter.py: RateLimiter                                   *)
(* Each method body runs under self._lock and holds no await inside it, so *)
(* a method is one atomic action.                                          *)

\* self._request_log[user_id] = value
SetItem(log, user_id, value) ==
    [k \in DOMAIN log \cup {user_id} |-> IF k = user_id THEN value ELSE log[k]]

\* del self._request_log[user_id]
\* variant: the whole log cleared
DelItem_all(log, user_id) == [k \in {} |-> <<>>]

DelItem(log, user_id) == [k \in DOMAIN log \ {user_id} |-> log[k]]

\* variant: the entry at the start of the window kept
InWindow_inclusive(entries, window_start) ==
    SelectSeq(entries, LAMBDA ts : ts >= window_start)

\* [ts for ts in entries if ts > window_start]
InWindow(entries, window_start) ==
    SelectSeq(entries, LAMBDA ts : ts > window_start)

\* variant: remaining computed without counting the request just recorded
is_allowed_remaining(log, user_id, now) ==
    LET window_start == now - window_seconds
        log1 == IF user_id \notin DOMAIN log THEN SetItem(log, user_id, <<>>) ELSE log
        log2 == SetItem(log1, user_id, InWindow(log1[user_id], window_start))
        current_count == Len(log2[user_id])
    IN  IF current_count >= max_requests
        THEN [log |-> log2, allowed |-> FALSE, remaining |-> 0]
        ELSE [log |-> SetItem(log2, user_id, Append(log2[user_id], now)),
              allowed |-> TRUE,
              remaining |-> max_requests - current_count]

\* variant: the capacity test written with > instead of >=
is_allowed_over(log, user_id, now) ==
    LET window_start == now - window_seconds
        log1 == IF user_id \notin DOMAIN log THEN SetItem(log, user_id, <<>>) ELSE log
        log2 == SetItem(log1, user_id, InWindow(log1[user_id], window_start))
        current_count == Len(log2[user_id])
    IN  IF current_count > max_requests
        THEN [log |-> log2, allowed |-> FALSE, remaining |-> 0]
        ELSE [log |-> SetItem(log2, user_id, Append(log2[user_id], now)),
              allowed |-> TRUE,
              remaining |-> max_requests - current_count - 1]

\* variant: the entries that left the window are never dropped
is_allowed_noprune(log, user_id, now) ==
    LET log2 == IF user_id \notin DOMAIN log THEN SetItem(log, user_id, <<>>) ELSE log
        current_count == Len(log2[user_id])
    IN  IF current_count >= max_requests
        THEN [log |-> log2, allowed |-> FALSE, remaining |-> 0]
        ELSE [log |-> SetItem(log2, user_id, Append(log2[user_id], now)),
              allowed |-> TRUE,
              remaining |-> max_requests - current_count - 1]

is_allowed(log, user_id, now) ==
    LET window_start == now - window_seconds
        log1 == IF user_id \notin DOMAIN log THEN SetItem(log, user_id, <<>>) ELSE log
        log2 == SetItem(log1, user_id, InWindow(log1[user_id], window_start))
        current_count == Len(log2[user_id])
    IN  IF current_count >= max_requests
        THEN [log |-> log2, allowed |-> FALSE, remaining |-> 0]
        ELSE [log |-> SetItem(log2, user_id, Append(log2[user_id], now)),
              allowed |-> TRUE,
              remaining |-> max_requests - current_count - 1]

\* the entries recorded for a key, none while the key is not in the log
EntriesOf(log, k) == IF k \in DOMAIN log THEN log[k] ELSE <<>>

\* variant: the call counted as a request of its own
get_usage_counted(log, user_id, now) ==
    LET window_start == now - window_seconds
        entries == InWindow(EntriesOf(log, user_id), window_start)
    IN  [log |-> SetItem(log, user_id, Append(entries, now)),
         requests_in_window |-> Len(entries),
         max_requests |-> max_requests,
         remaining |-> max_requests - Len(entries),
         window_seconds |-> window_seconds]

get_usage(log, user_id, now) ==
    LET window_start == now - window_seconds
    IN  IF user_id \notin DOMAIN log
        THEN [log |-> log, requests_in_window |-> 0,
              max_requests |-> max_requests, remaining |-> max_requests,
              window_seconds |-> window_seconds]
        ELSE LET log2 == SetItem(log, user_id, InWindow(log[user_id], window_start))
                 current_count == Len(log2[user_id])
             IN  [log |-> log2, requests_in_window |-> current_count,
                  max_requests |-> max_requests,
                  remaining |-> max_requests - current_count,
                  window_seconds |-> window_seconds]

\* variant: the oldest entry of the key dropped, the others kept
reset_user_oldest(log, user_id) ==
    IF user_id \in DOMAIN log /\ Len(log[user_id]) > 1
    THEN SetItem(log, user_id, Tail(log[user_id]))
    ELSE IF user_id \in DOMAIN log THEN DelItem(log, user_id) ELSE log

reset_user(log, user_id) ==
    IF user_id \in DOMAIN log THEN DelItem(log, user_id) ELSE log

\* time passes by one second; admissions leave the trailing window
TickRL ==
    /\ clock < MaxClockRL
    /\ clock' = clock + 1
    /\ admitted' = [k \in RLKeys |-> InWindow(admitted[k], clock' - window_seconds)]
    /\ last' = NoOp
    /\ UNCHANGED <<app, users, tokens, issued, reqs, request_log>>

IsAllowed(user_id) ==
    LET r == is_allowed(request_log, user_id, clock)
    IN  /\ request_log' = r.log
        /\ admitted' = IF r.allowed
                       THEN [admitted EXCEPT ![user_id] = Append(@, clock)]
                       ELSE admitted
        /\ last' = [op |-> "is_allowed", key |-> user_id, allowed |-> r.allowed,
                    remaining |-> r.remaining,
                    \* history: how many entries this call dropped
                    dropped |-> Len(EntriesOf(request_log, user_id))
                                + (IF r.allowed THEN 1 ELSE 0)
                                - Len(r.log[user_id])]
        /\ UNCHANGED <<app, clock, users, tokens, issued, reqs>>

GetUsage(user_id) ==
    LET r == get_usage(request_log, user_id, clock)
    IN  /\ request_log' = r.log
        /\ last' = [op |-> "get_usage", key |-> user_id,
                    requests_in_window |-> r.requests_in_window,
                    max_requests |-> r.max_requests,
                    remaining |-> r.remaining,
                    window_seconds |-> r.window_seconds]
        /\ UNCHANGED <<app, clock, users, tokens, issued, reqs, admitted>>

ResetUser(user_id) ==
    /\ request_log' = reset_user(request_log, user_id)
    /\ admitted' = [admitted EXCEPT ![user_id] = <<>>]
    /\ last' = [op |-> "reset_user", key |-> user_id,
                \* history: how many entries this call cleared
                cleared |-> Len(EntriesOf(request_log, user_id))]
    /\ UNCHANGED <<app, clock, users, tokens, issued, reqs>>

NextRL ==
    \/ TickRL
    \/ \E user_id \in RLKeys : IsAllowed(user_id)
    \/ \E user_id \in RLKeys : GetUsage(user_id)
    \/ \E user_id \in RLKeys : ResetUser(user_id)

SpecRL == Init /\ [][NextRL]_vars

----------------------------------------------------------------------------
(* services/rate_limiter.py: the methods as coroutines that contend for    *)
(* self._lock.  Here a coroutine may be suspended between the statements   *)
(* of is_allowed that read the count and the one that records the request, *)
(* which is every interleaving callers could produce: only the lock keeps  *)
(* the bodies apart.                                                       *)

\* the key the concurrent callers contend for
LockKeys == {"1"}

\* variant: the lock is never seen as held
locked_never(rs) == FALSE

\* self._lock.locked(): some coroutine is inside "async with self._lock"
locked(rs) == \E c \in InFlight(rs) : c.pc = "record"

\* a method is called: the coroutine waits for its turn at the lock
LockCall(method, user_id) ==
    /\ BagCardinality(reqs) < MaxCoroutines
    /\ reqs' = Suspend(reqs, [pc |-> "called", method |-> method, key |-> user_id,
                              \* history: the entries of the key at the call
                              seen |-> Len(EntriesOf(request_log, user_id)),
                              now |-> 0, current_count |-> 0])
    /\ last' = [op |-> "await"]
    /\ UNCHANGED <<app, clock, users, tokens, issued, request_log, admitted>>

\* is_allowed: the lock is taken, the expired entries are dropped, the count
\* is read and compared; at capacity the coroutine returns (False, 0)
IsAllowedCheck(c) ==
    /\ c \in InFlight(reqs)
    /\ c.pc = "called" /\ c.method = "is_allowed"
    /\ ~locked(reqs)
    /\ LET now == clock
           window_start == now - window_seconds
           log1 == IF c.key \notin DOMAIN request_log
                   THEN SetItem(request_log, c.key, <<>>) ELSE request_log
           log2 == SetItem(log1, c.key, InWindow(log1[c.key], window_start))
           current_count == Len(log2[c.key])
       IN  /\ request_log' = log2
           /\ IF current_count >= max_requests
              THEN /\ reqs' = Resume(reqs, c)
                   /\ last' = [op |-> "is_allowed", key |-> c.key, allowed |-> FALSE,
                               remaining |-> 0, seen |-> c.seen]
              ELSE /\ reqs' = Suspend(Resume(reqs, c),
                                 [c EXCEPT !.pc = "record", !.now = now,
                                           !.current_count = current_count])
                   /\ last' = [op |-> "await"]
    /\ UNCHANGED <<app, clock, users, tokens, issued, admitted>>

\* is_allowed: the request is recorded, (True, remaining) is returned and
\* the lock is released
IsAllowedRecord(c) ==
    /\ c \in InFlight(reqs)
    /\ c.pc = "record"
    /\ request_log' = SetItem(request_log, c.key,
                              Append(EntriesOf(request_log, c.key), c.now))
    /\ admitted' = [admitted EXCEPT ![c.key] = Append(@, c.now)]
    /\ reqs' = Resume(reqs, c)
    /\ last' = [op |-> "is_allowed", key |-> c.key, allowed |-> TRUE,
                remaining |-> max_requests - c.current_count - 1, seen |-> c.seen]
    /\ UNCHANGED <<app, clock, users, tokens, issued>>

\* get_usage: its whole body, under the lock
GetUsageLocked(c) ==
    /\ c \in InFlight(reqs)
    /\ c.pc = "called" /\ c.method = "get_usage"
    /\ ~locked(reqs)
    /\ LET r == get_usage(request_log, c.key, clock)
       IN  /\ request_log' = r.log
           /\ last' = [op |-> "get_usage", key |-> c.key,
                       requests_in_window |-> r.requests_in_window,
                       remaining |-> r.remaining]
    /\ reqs' = Resume(reqs, c)
    /\ UNCHANGED <<app, clock, users, tokens, issued, admitted>>

\* reset_user: its whole body, under the lock
ResetUserLocked(c) ==
    /\ c \in InFlight(reqs)
    /\ c.pc = "called" /\ c.method = "reset_user"
    /\ ~locked(reqs)
    /\ request_log' = reset_user(request_log, c.key)
    /\ admitted' = [admitted EXCEPT ![c.key] = <<>>]
    /\ reqs' = Resume(reqs, c)
    /\ last' = [op |-> "reset_user", key |-> c.key]
    /\ UNCHANGED <<app, clock, users, tokens, issued>>

\* time passes between the coroutines' steps; the statements inside the lock
\* hold no await and take none of the model's whole seconds
TickLock == ~locked(reqs) /\ TickRL

NextLock ==
    \/ TickLock
    \/ \E method \in {"is_allowed", "get_usage", "reset_user"}, user_id \in LockKeys :
          LockCall(method, user_id)
    \/ \E c \in InFlight(reqs) : IsAllowedCheck(c)
    \/ \E c \in InFlight(reqs) : IsAllowedRecord(c)
    \/ \E c \in InFlight(reqs) : GetUsageLocked(c)
    \/ \E c \in InFlight(reqs) : ResetUserLocked(c)

SpecLock == Init /\ [][NextLock]_vars

----------------------------------------------------------------------------
(* services/dexcom_api.py and routers/dexcom.py: the six data endpoints *)

ThirtyDays == 2592000    \* timedelta(days=30), in seconds
RangedOps == {"egvs", "calibrations", "events", "alerts"}
DataOps == RangedOps \cup {"dataRange", "devices"}

\* (start_date, end_date) of a request: exactly 30 days, and one second more
Ranges == {<<0, ThirtyDays>>, <<0, ThirtyDays + 1>>}
\* the X-User-ID header: absent, two user ids, and a value that is no integer
X_User_IDs == {"None", "1", "2", "abc"}
\* the answers of the upstream to an authenticated GET
UpstreamStatuses == {200, 400, 401, 403, 404, 429, 500, 503}

\* routers/dexcom.py: get_user_id
get_user_id(user_id_header) ==
    IF user_id_header = "None"
    THEN [status |-> 200, user_id |-> 1]
    ELSE IF user_id_header = "1" THEN [status |-> 200, user_id |-> 1]
    ELSE IF user_id_header = "2" THEN [status |-> 200, user_id |-> 2]
    ELSE [status |-> 400, user_id |-> 0]   \* int() raises ValueError

\* variant: the comparison written with >= instead of >
validate_time_range_inclusive(start_date, end_date) ==
    IF (end_date - start_date) >= ThirtyDays THEN "ValueError" ELSE "None"

\* services/dexcom_api.py: _validate_time_range; what it raises
validate_time_range(start_date, end_date) ==
    IF (end_date - start_date) > ThirtyDays THEN "ValueError" ELSE "None"

\* variant: every status from 500 on takes the branch of status 500
make_request_5xx(status_code) ==
    IF status_code = 429
    THEN [raised |-> "RateLimitError", status_code |-> 429,
          message |-> "Rate limit exceeded. Max 60,000 requests per hour."]
    ELSE IF status_code = 401
    THEN [raised |-> "DexcomAPIError", status_code |-> 401,
          message |-> "Unauthorized - token may be expired"]
    ELSE IF status_code = 400
    THEN [raised |-> "DexcomAPIError", status_code |-> 400, message |-> "Bad Request"]
    ELSE IF status_code = 404
    THEN [raised |-> "DexcomAPIError", status_code |-> 404,
          message |-> "Endpoint not found"]
    ELSE IF status_code >= 500
    THEN [raised |-> "DexcomAPIError", status_code |-> status_code,
          message |-> "Internal Server Error"]
    ELSE IF status_code # 200
    THEN [raised |-> "DexcomAPIError", status_code |-> status_code,
          message |-> "API request failed"]
    ELSE [raised |-> "None", status_code |-> 200, message |-> "json"]

\* services/dexcom_api.py: _make_request, from the status the upstream answered
make_request(status_code) ==
    IF status_code = 429
    THEN [raised |-> "RateLimitError", status_code |-> 429,
          message |-> "Rate limit exceeded. Max 60,000 requests per hour."]
    ELSE IF status_code = 401
    THEN [raised |-> "DexcomAPIError", status_code |-> 401,
          message |-> "Unauthorized - token may be expired"]
    ELSE IF status_code = 400
    THEN [raised |-> "DexcomAPIError", status_code |-> 400, message |-> "Bad Request"]
    ELSE IF status_code = 404
    THEN [raised |-> "DexcomAPIError", status_code |-> 404,
          message |-> "Endpoint not found"]
    ELSE IF status_code = 500
    THEN [raised |-> "DexcomAPIError", status_code |-> 500,
          message |-> "Internal Server Error"]
    ELSE IF status_code # 200
    THEN [raised |-> "DexcomAPIError", status_code |-> status_code,
          message |-> "API request failed"]
    ELSE [raised |-> "None", status_code |-> 200, message |-> "json"]

\* services/dexcom_api.py: get_egvs, get_calibrations, get_events, get_alerts
\* validate the range before they build the request; get_data_range and
\* get_devices take no range.  What the operation does before its await.
client_get(endpoint, range) ==
    IF endpoint \in RangedOps /\ validate_time_range(range[1], range[2]) = "ValueError"
    THEN "ValueError"
    ELSE "request"

\* variant: every upstream error but 429 is answered with 502
handler_status_gateway(raised, status_code) ==
    IF raised = "None" THEN 200
    ELSE IF raised = "RateLimitError" THEN 429
    ELSE IF raised = "DexcomAPIError" THEN 502
    ELSE IF raised = "ValueError" THEN 400
    ELSE IF raised = "HTTPException" THEN status_code
    ELSE 500

\* routers/dexcom.py: the except clauses of a data handler, from what was
\* raised inside its try block to the status of the response
handler_status(raised, status_code) ==
    IF raised = "None" THEN 200
    ELSE IF raised = "RateLimitError" THEN 429
    ELSE IF raised = "DexcomAPIError" THEN status_code
    ELSE IF raised = "ValueError" THEN 400
    ELSE IF raised = "HTTPException" THEN status_code
    ELSE 500

\* routers/dexcom.py: get_egvs, get_calibrations, get_data_range,
\* get_devices, get_events, get_alerts, up to the await inside _make_request.
\* The dependencies run first, in the order of the signature: the client is
\* built by get_dexcom_client before get_user_id reads the header, and the
\* handler body, with its try ... finally: await client.close(), runs only
\* when every dependency returned.
DataStart(user_id_header, endpoint, range) ==
    LET client == DexcomAPIClient(<<"settings">>)
        resolved == get_user_id(user_id_header)
        user_id == resolved.user_id
    IN  /\ client = "client"
        /\ IF resolved.status # 200
           THEN /\ last' = [op |-> "data", endpoint |-> endpoint, user |-> user_id,
                            range |-> range, raised |-> "HTTPException",
                            status |-> handler_status("HTTPException", resolved.status),
                            called |-> FALSE, closed |-> FALSE, attempts |-> 0]
                /\ UNCHANGED reqs
           ELSE \E row \in RowOrNone(LatestRows(tokens, user_id)) :
                  LET tok == get_valid_token(tokens, row, TRUE, clock)
                  IN  IF tok.status # 200
                      THEN /\ last' = [op |-> "data", endpoint |-> endpoint,
                                       user |-> user_id, range |-> range,
                                       raised |-> "HTTPException",
                                       status |-> handler_status("HTTPException",
                                                                 tok.status),
                                       called |-> FALSE, closed |-> TRUE,
                                       attempts |-> tok.attempts]
                           /\ UNCHANGED reqs
                      ELSE IF client_get(endpoint, range) = "ValueError"
                      THEN /\ last' = [op |-> "data", endpoint |-> endpoint,
                                       user |-> user_id, range |-> range,
                                       raised |-> "ValueError",
                                       status |-> handler_status("ValueError", 0),
                                       called |-> FALSE, closed |-> TRUE,
                                       attempts |-> tok.attempts]
                           /\ UNCHANGED reqs
                      ELSE /\ BagCardinality(reqs) < MaxInFlight
                           /\ reqs' = Suspend(reqs,
                                 [pc |-> "data", user |-> user_id, state |-> "None",
                                  refresh_token |-> <<>>])
                           /\ last' = [op |-> "data_call", endpoint |-> endpoint,
                                       user |-> user_id, range |-> range]
        /\ UNCHANGED <<app, clock, users, tokens, issued, request_log, admitted>>

\* variant: an upstream error sends the GET again instead of being raised
DataAnswer_retry(r, status_code) ==
    /\ r \in InFlight(reqs)
    /\ r.pc = "data"
    /\ LET res == make_request(status_code)
       IN  IF res.raised = "None"
           THEN /\ last' = [op |-> "data", user |-> r.user, upstream |-> status_code,
                            raised |-> res.raised, message |-> res.message,
                            error_status |-> res.status_code,
                            status |-> handler_status(res.raised, res.status_code),
                            called |-> TRUE, closed |-> TRUE, timeout |-> FALSE]
                /\ reqs' = Resume(reqs, r)
           ELSE /\ last' = [op |-> "data_call", user |-> r.user]
                /\ reqs' = reqs
    /\ UNCHANGED <<app, clock, users, tokens, issued, request_log, admitted>>

\* ... the upstream answers with a status: _make_request raises or returns,
\* the handler's except clauses pick the response, finally closes the client
DataAnswer(r, status_code) ==
    /\ r \in InFlight(reqs)
    /\ r.pc = "data"
    /\ LET res == make_request(status_code)
       IN  last' = [op |-> "data", user |-> r.user, upstream |-> status_code,
                    raised |-> res.raised, message |-> res.message,
                    error_status |-> res.status_code,
                    status |-> handler_status(res.raised, res.status_code),
                    called |-> TRUE, closed |-> TRUE, timeout |-> FALSE]
    /\ reqs' = Resume(reqs, r)
    /\ UNCHANGED <<app, clock, users, tokens, issued, request_log, admitted>>

\* ... the upstream does not answer within the timeout of the http client:
\* the awaited get inside _make_request raises httpx.TimeoutException, which
\* neither _make_request nor the handler catches; the finally block closes
\* the client and the server answers 500
DataTimeout(r) ==
    /\ r \in InFlight(reqs)
    /\ r.pc = "data"
    /\ last' = [op |-> "data", user |-> r.user, upstream |-> 0,
                raised |-> "TimeoutException", message |-> "None",
                error_status |-> 0,
                status |-> handler_status("TimeoutException", 0),
                called |-> TRUE, closed |-> TRUE, timeout |-> TRUE]
    /\ reqs' = Resume(reqs, r)
    /\ UNCHANGED <<app, clock, users, tokens, issued, request_log, admitted>>

\* the data endpoints, with the part of the token lifecycle that gives a
\* principal a record and takes it away
NextData ==
    \/ Tick
    \/ \E p \in Principals, state \in States : ExchangeStart(p, state)
    \/ \E r \in InFlight(reqs), e \in ExpiresIns : ExchangeOk(r, e, "exchange")
    \/ \E p \in Principals : Revoke(p)
    \/ \E h \in X_User_IDs, endpoint \in RangedOps, range \in Ranges :
          DataStart(h, endpoint, range)
    \/ \E h \in X_User_IDs, endpoint \in DataOps \ RangedOps :
          DataStart(h, endpoint, <<0, 0>>)
    \/ \E r \in InFlight(reqs), status_code \in UpstreamStatuses :
          DataAnswer(r, status_code)
    \/ \E r \in InFlight(reqs) : DataTimeout(r)

SpecData == Init /\ [][NextData]_vars

-----------------------------------------------------------------------------
(* routers/dexcom.py: refresh_token, several requests at a time.  Each     *)
(* request runs the handler as a coroutine of its own; the handler takes   *)
(* no lock, and the coroutines interleave at the awaited upstream call.    *)

NextRefresh ==
    \/ Tick
    \/ \E p \in Principals, state \in States : ExchangeStart(p, state)
    \/ \E r \in InFlight(reqs), e \in ExpiresIns : ExchangeOk(r, e, "exchange")
    \/ \E p \in Principals : RefreshStartUpTo(p, MaxRefreshes)
    \/ \E r \in InFlight(reqs), e \in ExpiresIns : RefreshOk(r, e)
    \/ \E r \in InFlight(reqs), code \in ErrorStatuses : RefreshFail(r, code)
    \/ \E r \in InFlight(reqs) : RefreshTimeout(r)
    \/ \E p \in Principals, auto_refresh \in BOOLEAN : GetValidToken(p, auto_refresh)
    \/ \E p \in Principals : Revoke(p)

SpecRefresh == Init /\ [][NextRefresh]_vars

-----------------------------------------------------------------------------
(* routers/dexcom.py: refresh_token, with the answers of the upstream in   *)
(* transit.  The upstream issues a grant when it handles a request; the    *)
(* handler resumes when the answer arrives, and answers to different       *)
(* requests arrive in any order.                                           *)

\* the upstream handles the refresh request of a suspended handler and
\* issues the next grant; its answer is on the way
RefreshAnswer(r, e) ==
    /\ r \in InFlight(reqs)
    /\ r.pc = "refresh"
    /\ issued < MaxAnswers
    /\ issued' = issued + 1
    /\ reqs' = Suspend(Resume(reqs, r),
                       [pc |-> "refresh_answered", user |-> r.user,
                        state |-> r.state, refresh_token |-> r.refresh_token,
                        grant |-> issued + 1, expires_in |-> e])
    /\ last' = [op |-> "upstream_refresh", user |-> r.user, grant |-> issued + 1]
    /\ UNCHANGED <<app, clock, users, tokens, request_log, admitted>>

\* routers/dexcom.py: refresh_token from the answer of the upstream on:
\* store_tokens(user_id, new grant)
RefreshStore(r) ==
    /\ r \in InFlight(reqs)
    /\ r.pc = "refresh_answered"
    /\ LET grant == OAuthToken(r.grant, r.expires_in)
       IN  \E existing \in RowOrNone(FirstRows(tokens, r.user)) :
                /\ tokens' = store_tokens(tokens, existing, r.user, grant,
                                          "None", "offline_access", clock)
                /\ last' = [op |-> "refresh", user |-> r.user, status |-> 200,
                            ok |-> TRUE, user_id |-> r.user,
                            rec |-> StoredRow(tokens, existing),
                            raised |-> "None", timeout |-> FALSE,
                            updated |-> existing # 0]
    /\ reqs' = Resume(reqs, r)
    /\ UNCHANGED <<app, clock, users, issued, request_log, admitted>>

NextAnswers ==
    \/ Tick
    \/ \E p \in Principals, state \in States : ExchangeStart(p, state)
    \/ \E r \in InFlight(reqs), e \in ExpiresIns : ExchangeOk(r, e, "exchange")
    \/ \E p \in Principals : RefreshStartUpTo(p, MaxRefreshes)
    \/ \E r \in InFlight(reqs), e \in ExpiresIns : RefreshAnswer(r, e)
    \/ \E r \in InFlight(reqs) : RefreshStore(r)

SpecAnswers == Init /\ [][NextAnswers]_vars

-----------------------------------------------------------------------------
(* database.py and services/token_storage.py: the session of store_tokens  *)
(* SessionLocal is made with autocommit=False and autoflush=False: the     *)
(* assignments of store_tokens change the objects of the session, and the  *)
(* table changes at db.commit() alone.  store_tokens holds no await, so no *)
(* other handler runs while its session has changes pending; the process   *)
(* may stop at any statement.                                              *)

\* the assignments of the update branch, in the order of the code
Assignments == 7

\* the table as the session sees it after the first k assignments of
\* store_tokens: the attributes of the existing row one by one, or the new
\* object once it is added to the session
Pending(toks, existing, user_id, oauth_token, state, scope, now, k) ==
    LET full == store_tokens(toks, existing, user_id, oauth_token, state, scope, now)
    IN  IF existing = 0
        THEN IF k = Assignments THEN full ELSE toks
        ELSE LET new == full[existing]
                 r0 == toks[existing]
                 r1 == IF k >= 1
                       THEN [r0 EXCEPT !.access_token_encrypted =
                                            new.access_token_encrypted]
                       ELSE r0
                 r2 == IF k >= 2
                       THEN [r1 EXCEPT !.refresh_token_encrypted =
                                            new.refresh_token_encrypted]
                       ELSE r1
                 r3 == IF k >= 3 THEN [r2 EXCEPT !.token_type = new.token_type] ELSE r2
                 r4 == IF k >= 4 THEN [r3 EXCEPT !.expires_in = new.expires_in] ELSE r3
                 r5 == IF k >= 5 THEN [r4 EXCEPT !.expires_at = new.expires_at] ELSE r4
                 r6 == IF k >= 6 THEN [r5 EXCEPT !.scope = new.scope] ELSE r5
                 r7 == IF k >= 7 THEN [r6 EXCEPT !.updated_at = new.updated_at] ELSE r6
             IN  [toks EXCEPT ![existing] = r7]

\* variant: autocommit, every assignment written to the table as it is made
rollback_autocommit(toks, pending) == pending

\* the table after a session with pending changes is dropped without a
\* commit, or after its commit fails: nothing was flushed, the table is as
\* it was
rollback(toks, pending) == toks

\* self.db.commit(): the pending changes reach the table in one transaction
commit(toks, pending) == pending

\* store_tokens up to some statement before db.commit(): k assignments made
StoreStage(p, e, k) ==
    /\ reqs = EmptyBag
    /\ issued < MaxGrants
    /\ issued' = issued + 1
    /\ \E existing \in RowOrNone(FirstRows(tokens, p)) :
          reqs' = Suspend(reqs, [pc |-> "staged", user |-> p, existing |-> existing,
                                 expires_in |-> e, assigned |-> k])
    /\ last' = [op |-> "stage", user |-> p]
    /\ UNCHANGED <<app, clock, users, tokens, request_log, admitted>>

\* the session's view of the table for the store in progress
PendingOf(r) ==
    Pending(tokens, r.existing, r.user, OAuthToken(issued, r.expires_in),
            "None", "offline_access", clock, r.assigned)

\* ... db.commit() succeeds, db.refresh, return
StoreCommit(r) ==
    /\ r \in InFlight(reqs)
    /\ r.pc = "staged"
    /\ r.assigned = Assignments
    /\ tokens' = commit(tokens, PendingOf(r))
    /\ last' = [op |-> "store", user |-> r.user, ok |-> TRUE,
                rec |-> StoredRow(tokens, r.existing), assigned |-> r.assigned]
    /\ reqs' = Resume(reqs, r)
    /\ UNCHANGED <<app, clock, users, issued, request_log, admitted>>

\* ... db.commit() raises: the exception leaves store_tokens and the handler,
\* and get_db closes the session
StoreCommitFail(r) ==
    /\ r \in InFlight(reqs)
    /\ r.pc = "staged"
    /\ r.assigned = Assignments
    /\ tokens' = rollback(tokens, PendingOf(r))
    /\ last' = [op |-> "commit_failed", user |-> r.user, ok |-> FALSE,
                rec |-> r.existing, assigned |-> r.assigned]
    /\ reqs' = Resume(reqs, r)
    /\ UNCHANGED <<app, clock, users, issued, request_log, admitted>>

\* ... the process stops before db.commit() has succeeded, and is started
\* again
Crash(r) ==
    /\ r \in InFlight(reqs)
    /\ r.pc = "staged"
    /\ tokens' = rollback(tokens, PendingOf(r))
    /\ last' = [op |-> "crash", user |-> r.user, ok |-> FALSE,
                rec |-> r.existing, assigned |-> r.assigned]
    /\ reqs' = EmptyBag
    /\ UNCHANGED <<app, clock, users, issued, request_log, admitted>>

NextCommit ==
    \/ reqs = EmptyBag /\ Tick
    \/ \E p \in Principals, e \in ExpiresIns, k \in 0..Assignments :
          StoreStage(p, e, k)
    \/ \E r \in InFlight(reqs) : StoreCommit(r)
    \/ \E r \in InFlight(reqs) : StoreCommitFail(r)
    \/ \E r \in InFlight(reqs) : Crash(r)
    \/ \E p \in Principals : reqs = EmptyBag /\ Revoke(p)

SpecCommit == Init /\ [][NextCommit]_vars

----------------------------------------------------------------------------
(* main.py and utils/encryption.py: the start of the process and the       *)
(* encryption service, which is built on its first use                     *)

MaxLen == 2                      \* the longest plaintext
Alphabet == {97, 233, 8364}      \* "a", "e" acute, the euro sign: 1, 2, 3 bytes
Strings == UNION {[1..m -> Alphabet] : m \in 0..MaxLen}
Keys == {"K1", "K2"}
\* config.py: ENCRYPTION_KEY: str = "", or a key from the environment
ConfiguredKeys == Keys \cup {""}
\* the ciphertexts a call of decrypt may be handed
Ciphertexts == {EncryptionService_encrypt(k, s) : k \in Keys, s \in Strings}

\* EncryptionService.__init__: the key of self.cipher, or what is raised
EncryptionService(settings_key) ==
    IF settings_key = "" THEN "ValueError" ELSE settings_key

\* get_encryption_service(): the instance it returns, or what is raised
get_encryption_service(encryption_service, settings_key) ==
    IF encryption_service = "None"
    THEN EncryptionService(settings_key)
    ELSE encryption_service

\* the process is started with some ENCRYPTION_KEY in its environment
InitEnc ==
    /\ clock = 0
    /\ users = <<>>
    /\ tokens = <<>>
    /\ issued = 0
    /\ reqs = EmptyBag
    /\ last = NoOp
    /\ request_log = <<>>
    /\ admitted = [k \in RLKeys |-> <<>>]
    /\ \E k \in ConfiguredKeys :
          app = [ENCRYPTION_KEY |-> k, phase |-> "starting",
                 encryption_service |-> "None"]

\* main.py: the module body and lifespan up to its yield: the settings are
\* read and logged, the database is initialised (a failure is logged and
\* passed over); the encryption key is not looked at
Lifespan ==
    /\ app.phase = "starting"
    /\ app' = [app EXCEPT !.phase = "serving"]
    /\ last' = [op |-> "startup"]
    /\ UNCHANGED <<clock, users, tokens, issued, reqs, request_log, admitted>>

\* utils/encryption.py: encrypt(plaintext), called while a request is served
EncryptCall(plaintext) ==
    /\ app.phase = "serving"
    /\ LET service == get_encryption_service(app.encryption_service,
                                             app.ENCRYPTION_KEY)
       IN  IF service = "ValueError"
           THEN /\ last' = [op |-> "encrypt", input |-> plaintext,
                            raised |-> "ValueError", result |-> "None"]
                /\ UNCHANGED app
           ELSE /\ app' = [app EXCEPT !.encryption_service = service]
                /\ last' = [op |-> "encrypt", input |-> plaintext,
                            raised |-> "None",
                            result |-> EncryptionService_encrypt(service, plaintext)]
    /\ UNCHANGED <<clock, users, tokens, issued, reqs, request_log, admitted>>

\* utils/encryption.py: decrypt(ciphertext), called while a request is served
DecryptCall(ciphertext) ==
    /\ app.phase = "serving"
    /\ LET service == get_encryption_service(app.encryption_service,
                                             app.ENCRYPTION_KEY)
       IN  IF service = "ValueError"
           THEN /\ last' = [op |-> "decrypt", input |-> ciphertext,
                            raised |-> "ValueError", result |-> "None"]
                /\ UNCHANGED app
           ELSE LET plaintext == EncryptionService_decrypt(service, ciphertext)
                IN  /\ app' = [app EXCEPT !.encryption_service = service]
                    /\ last' = [op |-> "decrypt", input |-> ciphertext,
                                raised |-> IF plaintext = "InvalidToken"
                                           THEN "InvalidToken"
                                           ELSE IF plaintext = "UnicodeDecodeError"
                                           THEN "UnicodeDecodeError"
                                           ELSE "None",
                                result |-> plaintext]
    /\ UNCHANGED <<clock, users, tokens, issued, reqs, request_log, admitted>>

NextEnc ==
    \/ Lifespan
    \/ \E plaintext \in Strings : EncryptCall(plaintext)
    \/ \E ciphertext \in Ciphertexts : DecryptCall(ciphertext)

SpecEnc == InitEnc /\ [][NextEnc]_vars

----------------------------------------------------------------------------
(* Properties *)

StoreOps == {"exchange", "callback", "refresh"}

\* C1: get_valid_token with auto_refresh on a non-revoked record that is
\* expiring soon or expired, while the upstream is able to issue a grant,
\* calls the upstream refresh, stores the new grant and returns the new
\* access secret.
C1_AutoRefreshReturnsNewSecret ==
    [][ ( /\ last'.op = "get_valid_token"
          /\ last'.auto
          /\ last'.result.rec # 0
          /\ is_expiring_soon(tokens[last'.result.rec], clock, 300)
          /\ issued < MaxGrants )
        => ( /\ last'.result.called
             /\ last'.result.status = 200
             /\ issued' = issued + 1
             /\ last'.result.access = AccessSecret(issued')
             /\ decrypt(tokens'[last'.result.rec].access_token_encrypted)
                    = AccessSecret(issued')
             /\ decrypt(tokens'[last'.result.rec].refresh_token_encrypted)
                    = RefreshSecret(issued') ) ]_vars

\* C2: right after principal p completes a successful authorization-code
\* exchange (exchange endpoint or callback), p itself has a non-revoked,
\* unexpired record that holds the access secret of the grant just issued.
C2_GrantStoredUnderPrincipal ==
    (last.op \in {"exchange", "callback"} /\ last.ok)
    => \E i \in NonRevoked(tokens, last.user) :
          /\ decrypt(tokens[i].access_token_encrypted) = AccessSecret(issued)
          /\ ~is_expired(tokens[i], clock)

\* C3: a successful refresh for p leaves p with exactly one non-revoked
\* record, the same row as before the refresh (no row is added), whose
\* expires_at is the instant of the refresh plus the grant's expires_in.
C3_RefreshInPlace ==
    [][ (last'.op = "refresh" /\ last'.ok)
        => ( /\ Len(tokens') = Len(tokens)
             /\ NonRevoked(tokens', last'.user) = NonRevoked(tokens, last'.user)
             /\ Cardinality(NonRevoked(tokens', last'.user)) = 1
             /\ \A i \in NonRevoked(tokens', last'.user) :
                    tokens'[i].expires_at = clock + tokens'[i].expires_in ) ]_vars

\* C4: revoke(p) leaves p without a non-revoked record and touches no row of
\* another principal; a revoke(p) that finds nothing to revoke (the second of
\* two in a row) changes no row at all; get_valid_token(p) answers 401 while
\* p has no non-revoked record, and only a successful store of a grant gives
\* p a non-revoked record again.
C4_RevokeIdempotent ==
    [][ /\ (last'.op = "revoke")
            => /\ NonRevoked(tokens', last'.user) = {}
               /\ Len(tokens') = Len(tokens)
               /\ \A i \in 1..Len(tokens) :
                     (tokens[i].is_revoked \/ tokens[i].user_id # last'.user)
                        => tokens'[i] = tokens[i]
               /\ \A t \in Instants :
                     revoke_tokens(tokens', last'.user, t) = tokens'
        /\ (last'.op = "get_valid_token" /\ NonRevoked(tokens, last'.user) = {})
            => last'.result.status = 401
        /\ \A p \in Principals :
              (NonRevoked(tokens, p) = {} /\ NonRevoked(tokens', p) # {})
                 => (last'.op \in StoreOps /\ last'.ok) ]_vars

\* a second revoke(p), issued later than the one that revoked p's record
C4_Witness ==
    /\ last.op = "revoke"
    /\ \E i \in 1..Len(tokens) :
          /\ tokens[i].user_id = last.user
          /\ tokens[i].is_revoked
          /\ tokens[i].revoked_at < clock

\* C5: get_valid_token(p) for a principal without a non-revoked record
\* answers 401, calls no upstream and changes no record.
C5_NoRecordUnauthorized ==
    [][ (last'.op = "get_valid_token" /\ NonRevoked(tokens, last'.user) = {})
        => ( /\ last'.result.status = 401
             /\ ~last'.result.called
             /\ last'.result.attempts = 0
             /\ UNCHANGED <<tokens, users, issued, reqs>> ) ]_vars

\* get_valid_token answered 401 for a principal whose only record is revoked
C5_Witness ==
    /\ last.op = "get_valid_token"
    /\ last.result.status = 401
    /\ last.result.detail = "no_authorization"
    /\ NonRevoked(tokens, last.user) = {}
    /\ \E i \in 1..Len(tokens) : tokens[i].user_id = last.user

\* C6: when the refresh inside get_valid_token fails, the call answers 401,
\* the refresh was tried once, and no record, grant or request changed.
C6_RefreshFailureUnauthorized ==
    [][ ( /\ last'.op = "get_valid_token"
          /\ last'.result.attempts >= 1
          /\ last'.result.detail \in {"InvalidToken", "TypeError", "AttributeError"} )
        => ( /\ last'.result.status = 401
             /\ last'.result.attempts = 1
             /\ UNCHANGED <<tokens, users, issued, reqs>> ) ]_vars

\* a refresh was tried on an expired record and the call answered 401
C6_Witness ==
    /\ last.op = "get_valid_token"
    /\ last.result.attempts = 1
    /\ last.result.status = 401
    /\ last.result.rec # 0
    /\ clock >= tokens[last.result.rec].expires_at

\* C7: a store at instant T of a grant with expires_in = e sets
\* expires_at = T + e, and is_expired on that record is false before T + e
\* and true from T + e on.
C7_ExpiryComputation ==
    [][ /\ (last'.op \in StoreOps /\ last'.ok)
            => /\ tokens'[last'.rec].expires_in \in ExpiresIns
               /\ tokens'[last'.rec].expires_at
                      = clock + tokens'[last'.rec].expires_in
        /\ (last'.op = "status" /\ last'.result.authorized)
            => \A i \in NonRevoked(tokens, last'.user) :
                  last'.result.is_expired
                      = (clock >= tokens[i].updated_at + tokens[i].expires_in) ]_vars

\* the status of a record read at the very instant T + e: expired
C7_Witness ==
    /\ last.op = "status"
    /\ last.result.authorized
    /\ last.result.is_expired
    /\ \E i \in NonRevoked(tokens, last.user) :
          clock = tokens[i].updated_at + tokens[i].expires_in

\* C8: is_expiring_soon with the default threshold is true exactly when
\* now >= expires_at - 300, and get_valid_token tries a refresh under
\* exactly that condition.
C8_ExpiringSoonThreshold ==
    [][ /\ (last'.op = "status" /\ last'.result.authorized)
            => \A i \in NonRevoked(tokens, last'.user) :
                  last'.result.is_expiring_soon
                      = (clock >= tokens[i].expires_at - 300)
        /\ (last'.op = "get_valid_token" /\ last'.auto /\ last'.result.rec # 0)
            => (last'.result.attempts >= 1)
                  = (clock >= tokens[last'.result.rec].expires_at - 300) ]_vars

\* get_valid_token tried a refresh at the very instant expires_at - 300
C8_Witness ==
    /\ last.op = "get_valid_token"
    /\ last.auto
    /\ last.result.rec # 0
    /\ last.result.attempts = 1
    /\ clock = tokens[last.result.rec].expires_at - 300

\* kept is entries without its expired ones: everything newer than now - W
\* is kept, everything older is dropped
IsPruned(kept, entries, now) ==
    \/ kept = SelectSeq(entries, LAMBDA ts : ts > now - window_seconds)
    \/ kept = SelectSeq(entries, LAMBDA ts : ts >= now - window_seconds)

\* C9: is_allowed(key) prunes the key's expired entries; with count >= N
\* after pruning it answers (false, 0) and records nothing, otherwise it
\* appends one entry stamped now and answers (true, N - count - 1).
C9_AdmitContract ==
    [][ (last'.op = "is_allowed")
        => LET k == last'.key
               after == EntriesOf(request_log', k)
               kept == IF last'.allowed /\ Len(after) > 0
                       THEN SubSeq(after, 1, Len(after) - 1) ELSE after
           IN  /\ k \in DOMAIN request_log'
               /\ IsPruned(kept, EntriesOf(request_log, k), clock)
               /\ IF Len(kept) >= max_requests
                  THEN /\ ~last'.allowed
                       /\ last'.remaining = 0
                       /\ after = kept
                  ELSE /\ last'.allowed
                       /\ after = Append(kept, clock)
                       /\ last'.remaining = max_requests - Len(kept) - 1 ]_vars

\* an admission recorded behind an entry that is still inside the window
C9_Witness ==
    /\ last.op = "is_allowed"
    /\ last.allowed
    /\ last.remaining = max_requests - 2
    /\ Len(request_log[last.key]) = 2
    /\ request_log[last.key][1] < clock

\* C10: no key ever holds more than N entries, and no key has more than N
\* admissions inside the trailing window of W seconds since its last reset.
C10_AtMostNEntries ==
    /\ \A k \in DOMAIN request_log : Len(request_log[k]) <= max_requests
    /\ \A k \in RLKeys : Len(admitted[k]) <= max_requests

\* a key at capacity was denied
C10_Witness ==
    /\ last.op = "is_allowed"
    /\ ~last.allowed
    /\ Len(request_log[last.key]) = max_requests
    /\ Len(admitted[last.key]) = max_requests

\* C11: the admissions of one key inside a window answer remaining N-1,
\* N-2, ..., 0 in turn: an admit that follows j < N admissions of the
\* trailing window is allowed with remaining N-1-j, one that follows N of
\* them is denied with remaining 0; and an admit made when every recorded
\* entry of the key is more than W seconds old is allowed with remaining N-1.
C11_WindowSequence ==
    [][ (last'.op = "is_allowed")
        => LET k == last'.key
               j == Len(admitted[k])
               recorded == EntriesOf(request_log, k)
           IN  /\ (j < max_requests)
                    => (last'.allowed /\ last'.remaining = max_requests - 1 - j)
               /\ (j >= max_requests)
                    => (~last'.allowed /\ last'.remaining = 0)
               /\ (\A i \in 1..Len(recorded) : recorded[i] + window_seconds < clock)
                    => (last'.allowed /\ last'.remaining = max_requests - 1) ]_vars

\* a key that had N entries recorded, all of them past the window since, is
\* admitted again with remaining N-1
C11_Witness ==
    /\ last.op = "is_allowed"
    /\ last.allowed
    /\ last.remaining = max_requests - 1
    /\ last.dropped = max_requests
    /\ request_log[last.key] = <<clock>>

\* C12: every upstream data call made for a principal follows an admission
\* of that principal by the rate limiter in the same request: when a data
\* handler issues its upstream call, the limiter holds an entry of the
\* principal's key stamped with the instant of the call.
C12_AdmitBeforeUpstream ==
    [][ (last'.op = "data_call")
        => LET k == ToString(last'.user)
           IN  /\ k \in DOMAIN request_log'
               /\ \E i \in 1..Len(request_log'[k]) : request_log'[k][i] = clock ]_vars

\* C13: the bodies of the rate limiter's methods exclude one another, and no
\* interleaving of concurrent admit, usage and reset calls admits a key
\* twice for one free place: at most one coroutine is inside the lock, no
\* key holds more than N entries or has more than N admissions in its
\* window, an admit is allowed exactly when the key held fewer than N
\* entries as it took the lock, and its entry is the only one added while it
\* held the lock.
C13_NoDoubleAdmission ==
    /\ [](/\ Cardinality({c \in InFlight(reqs) : c.pc = "record"}) <= 1
          /\ \A c \in InFlight(reqs) : c.pc = "record" => CopiesIn(c, reqs) = 1
          /\ \A k \in RLKeys : /\ Len(EntriesOf(request_log, k)) <= max_requests
                               /\ Len(admitted[k]) <= max_requests)
    /\ [][ (last'.op = "is_allowed")
           => /\ Len(request_log'[last'.key]) <= max_requests
              /\ last'.allowed
                   => /\ Len(request_log'[last'.key])
                            = max_requests - last'.remaining
                      /\ request_log'[last'.key]
                            = Append(EntriesOf(request_log, last'.key),
                                     request_log'[last'.key][Len(request_log'[last'.key])])
              /\ ~last'.allowed
                   => Len(request_log'[last'.key]) = max_requests ]_vars

\* an admit called when its key had N-1 entries is denied at the same
\* instant: an admit that ran concurrently took the last place
C13_Witness ==
    /\ last.op = "is_allowed"
    /\ ~last.allowed
    /\ last.seen = max_requests - 1
    /\ Len(request_log[last.key]) = max_requests
    /\ \A i \in 1..Len(request_log[last.key]) : request_log[last.key][i] = clock

\* a data handler got its credential and called the client's operation
ReachedClient(l) ==
    \/ l.op = "data_call"
    \/ (l.op = "data" /\ ~l.called /\ l.raised # "HTTPException")

\* C14: a ranged data operation (egvs, calibrations, events, alerts) called
\* with end_date - start_date of exactly 30 days issues its upstream request;
\* called with 30 days and one second it raises the validation error, which
\* the handler answers with 400, and no upstream request is issued.
C14_ThirtyDayRange ==
    [][ (ReachedClient(last') /\ last'.endpoint \in RangedOps)
        => LET span == last'.range[2] - last'.range[1]
           IN  /\ (span <= ThirtyDays)
                    => (last'.op = "data_call" /\ reqs' # reqs)
               /\ (span > ThirtyDays)
                    => /\ last'.op = "data"
                       /\ last'.raised = "ValueError"
                       /\ last'.status = 400
                       /\ ~last'.called
                       /\ reqs' = reqs ]_vars

\* the upstream request of a ranged operation issued for a range of exactly
\* 30 days
C14_Witness ==
    /\ last.op = "data_call"
    /\ last.endpoint \in RangedOps
    /\ last.range[2] - last.range[1] = ThirtyDays
    /\ \E r \in InFlight(reqs) : r.pc = "data" /\ r.user = last.user

\* the error kind an outcome of _make_request stands for: the code raises
\* RateLimitError or DexcomAPIError, and tells the kinds of DexcomAPIError
\* apart by the message it gives them
ErrorKind(raised, message) ==
    IF raised = "None" THEN "None"
    ELSE IF raised = "RateLimitError" THEN "RateLimitError"
    ELSE IF message = "Unauthorized - token may be expired" THEN "AuthError"
    ELSE IF message = "Bad Request" THEN "ValidationError"
    ELSE IF message = "Endpoint not found" THEN "NotFoundError"
    ELSE IF message = "Internal Server Error" THEN "UpstreamUnavailableError"
    ELSE "UpstreamError"

\* C15, as stated: the authenticated GET raises nothing on 200,
\* RateLimitError on 429, AuthError on 401, ValidationError on 400,
\* NotFoundError on 404, UpstreamUnavailableError on every status from 500
\* to 599 and the generic UpstreamError on any other status; each error
\* carries the upstream's status.
C15_Classification ==
    [][ (last'.op = "data" /\ last'.called)
        => LET st == last'.upstream
           IN  /\ ErrorKind(last'.raised, last'.message)
                    = IF st = 200 THEN "None"
                      ELSE IF st = 429 THEN "RateLimitError"
                      ELSE IF st = 401 THEN "AuthError"
                      ELSE IF st = 400 THEN "ValidationError"
                      ELSE IF st = 404 THEN "NotFoundError"
                      ELSE IF st \in 500..599 THEN "UpstreamUnavailableError"
                      ELSE "UpstreamError"
               /\ (st # 200) => (last'.error_status = st) ]_vars

\* C15, amended: as above, but only status 500 gives the server-error kind;
\* every other status that is not 200, 400, 401, 404, 429 or 500, the other
\* 5xx statuses (502, 503, ...) among them, gives the generic error.
C15_ClassificationAmended ==
    [][ (last'.op = "data" /\ last'.called)
        => LET st == last'.upstream
           IN  /\ ErrorKind(last'.raised, last'.message)
                    = IF st = 200 THEN "None"
                      ELSE IF st = 429 THEN "RateLimitError"
                      ELSE IF st = 401 THEN "AuthError"
                      ELSE IF st = 400 THEN "ValidationError"
                      ELSE IF st = 404 THEN "NotFoundError"
                      ELSE IF st = 500 THEN "UpstreamUnavailableError"
                      ELSE "UpstreamError"
               /\ (st # 200) => (last'.error_status = st) ]_vars

\* the upstream answered 503 and the client raised the generic error with it
C15_Witness ==
    /\ last.op = "data"
    /\ last.called
    /\ last.upstream = 503
    /\ last.raised = "DexcomAPIError"
    /\ last.message = "API request failed"
    /\ last.error_status = 503

\* C16: a data handler answers 401 when the principal has no non-revoked
\* record or its record is due for a refresh that cannot be made, 400 when
\* the range fails validation, 429 when the upstream answered 429, and the
\* upstream's own status when the upstream answered any other error (a call
\* that times out has no answer and no status).
C16_HandlerStatus ==
    [][ (last'.op = "data")
        => /\ (~last'.called /\ last'.user # 0
                 /\ \A i \in LatestRows(tokens, last'.user) :
                       is_expiring_soon(tokens[i], clock, 300))
                => (last'.status = 401)
           /\ (~last'.called /\ last'.raised = "ValueError")
                => (last'.status = 400)
           /\ (last'.called /\ ~last'.timeout /\ last'.upstream = 429)
                => (last'.status = 429)
           /\ (last'.called /\ ~last'.timeout /\ last'.upstream # 200)
                => (last'.status = last'.upstream)
           /\ (last'.called /\ ~last'.timeout /\ last'.upstream = 200)
                => (last'.status = 200) ]_vars

\* the upstream answered 404 and so did the handler
C16_Witness ==
    /\ last.op = "data"
    /\ last.called
    /\ last.upstream = 404
    /\ last.raised = "DexcomAPIError"
    /\ last.status = 404

\* C17: the client built for a data request is closed when the request
\* completes, whatever the way out: the answer of the upstream, a validation
\* error, 401 from get_valid_token, or a dependency that fails.
C17_ClientClosed ==
    [][ (last'.op = "data") => last'.closed ]_vars

C19_RoundTrip ==
    [][ /\ (last'.op = "encrypt" /\ last'.raised = "None")
            => \A k \in Keys :
                  EncryptionService_decrypt(k, last'.result)
                     = IF k = app'.encryption_service
                       THEN last'.input ELSE "InvalidToken"
        /\ (last'.op = "decrypt" /\ last'.raised # "ValueError")
            => \A k \in Keys, s \in Strings :
                  (last'.input = EncryptionService_encrypt(k, s))
                     => IF k = app'.encryption_service
                        THEN last'.raised = "None" /\ last'.result = s
                        ELSE last'.raised = "InvalidToken"
                             /\ last'.result = "InvalidToken" ]_vars

\* a string of the greatest length with a character of more than one byte
\* came back from decrypt under the key it was encrypted with
C19_Witness ==
    /\ last.op = "decrypt"
    /\ last.raised = "None"
    /\ last.input = EncryptionService_encrypt(app.encryption_service, last.result)
    /\ Len(last.result) = MaxLen
    /\ \E i \in 1..Len(last.result) : last.result[i] > 127

\* C20: in every state, the access_token_encrypted and
\* refresh_token_encrypted of every row of dexcom_tokens are what encrypt
\* returns for the access and the refresh secret of one grant the upstream
\* issued, and neither is a secret itself.
C20_SecretsEncrypted ==
    \A i \in 1..Len(tokens) :
       \E n \in 1..issued :
          /\ tokens[i].access_token_encrypted = encrypt(AccessSecret(n))
          /\ tokens[i].refresh_token_encrypted = encrypt(RefreshSecret(n))
          /\ tokens[i].access_token_encrypted # AccessSecret(n)
          /\ tokens[i].refresh_token_encrypted # RefreshSecret(n)

\* a row made by an exchange and written again by a later refresh
C20_Witness ==
    /\ last.op = "refresh"
    /\ last.ok
    /\ tokens[last.rec].updated_at > tokens[last.rec].created_at
    /\ tokens[last.rec].refresh_token_encrypted = encrypt(RefreshSecret(issued))
    /\ issued > 1

\* C21: no step deletes a row of dexcom_tokens or changes a revoked row (its
\* flag stays set, store_tokens leaves it alone), and no lookup answers with
\* a revoked row: get_valid_token returns a non-revoked row or 401, the
\* refresh secret a refresh sends is the one of a non-revoked row, and the
\* status is authorized only from a non-revoked row.
C21_RevocationTombstone ==
    [][ /\ Len(tokens') >= Len(tokens)
        /\ \A i \in 1..Len(tokens) :
              tokens[i].is_revoked => tokens'[i] = tokens[i]
        /\ (last'.op = "get_valid_token" /\ last'.result.rec # 0)
              => /\ ~tokens[last'.result.rec].is_revoked
                 /\ tokens[last'.result.rec].user_id = last'.user
        /\ (last'.op = "get_valid_token" /\ last'.result.rec = 0)
              => last'.result.status = 401
        /\ \A r \in InFlight(reqs') \ InFlight(reqs) :
              (r.pc = "refresh")
                 => \E i \in NonRevoked(tokens, r.user) :
                       decrypt(tokens[i].refresh_token_encrypted) = r.refresh_token
        /\ (last'.op = "status")
              => IF last'.result.authorized
                 THEN \E i \in NonRevoked(tokens, last'.user) :
                         /\ last'.result.expires_at = tokens[i].expires_at
                         /\ last'.result.scope = tokens[i].scope
                 ELSE NonRevoked(tokens, last'.user) = {} ]_vars

\* a grant was stored for a user who has a revoked row, in a row of its own
C21_Witness ==
    /\ last.op \in StoreOps
    /\ last.ok
    /\ \E i \in 1..Len(tokens) :
          /\ i # last.rec
          /\ tokens[i].is_revoked
          /\ tokens[i].user_id = last.user_id
          /\ tokens[i].updated_at = tokens[i].revoked_at

\* the columns of dexcom_tokens that hold a secret, and the names a decrypted
\* secret goes by
SecretFields ==
    {"access_token_encrypted", "refresh_token_encrypted",
     "access_token", "refresh_token"}

\* C22: the status request changes no row, no user and no counter of issued
\* grants, suspends on no upstream call, and answers authorized = TRUE exactly
\* when the user has a non-revoked row; its answer is the flag alone or the
\* flag with expires_at, scope and the two expiry flags of a non-revoked row
\* of the user, and has no field for a secret, encrypted or decrypted.
C22_StatusReadOnly ==
    [][ (last'.op = "status")
          => /\ UNCHANGED <<tokens, users, issued, reqs>>
             /\ last'.result.authorized = (NonRevoked(tokens, last'.user) # {})
             /\ DOMAIN last'.result \cap SecretFields = {}
             /\ \/ last'.result = [authorized |-> FALSE]
                \/ \E i \in NonRevoked(tokens, last'.user) :
                      last'.result =
                         [authorized |-> TRUE,
                          expires_at |-> tokens[i].expires_at,
                          is_expired |-> clock >= tokens[i].expires_at,
                          is_expiring_soon |->
                              clock + Threshold >= tokens[i].expires_at,
                          scope |-> tokens[i].scope] ]_vars

\* the status was asked for a user with a non-revoked row and for a user
\* whose only rows are revoked
C22_Witness ==
    /\ last.op = "status"
    /\ last.result.authorized
    /\ \E i \in 1..Len(tokens) : tokens[i].is_revoked

C22_WitnessRevoked ==
    /\ last.op = "status"
    /\ ~last.result.authorized
    /\ \E i \in 1..Len(tokens) :
          tokens[i].is_revoked /\ tokens[i].user_id = last.user

\* C23: a store of a grant for user u updates a non-revoked row of u in place
\* when u has one, the number of rows unchanged, and otherwise inserts one
\* new non-revoked row of u; every other row is left as it was, and the row
\* returned is the committed one: it holds the secrets of the grant,
\* its expires_in, expires_at = now + expires_in and the scope.
C23_StoreIsUpsert ==
    [][ (last'.op \in StoreOps /\ last'.ok)
          => LET u == last'.user_id
                 rec == last'.rec
             IN  /\ IF NonRevoked(tokens, u) # {}
                    THEN /\ Len(tokens') = Len(tokens)
                         /\ rec \in NonRevoked(tokens, u)
                         /\ tokens'[rec].created_at = tokens[rec].created_at
                    ELSE /\ Len(tokens') = Len(tokens) + 1
                         /\ rec = Len(tokens) + 1
                         /\ tokens'[rec].created_at = clock
                 /\ \A i \in 1..Len(tokens) : i # rec => tokens'[i] = tokens[i]
                 /\ tokens'[rec].user_id = u
                 /\ ~tokens'[rec].is_revoked
                 /\ decrypt(tokens'[rec].access_token_encrypted)
                        = AccessSecret(issued')
                 /\ decrypt(tokens'[rec].refresh_token_encrypted)
                        = RefreshSecret(issued')
                 /\ tokens'[rec].expires_in \in ExpiresIns
                 /\ tokens'[rec].expires_at = clock + tokens'[rec].expires_in
                 /\ tokens'[rec].scope = "offline_access"
                 /\ tokens'[rec].updated_at = clock ]_vars

\* a second grant was stored over the row of the first, at a later instant
C23_Witness ==
    /\ last.op = "refresh"
    /\ last.ok
    /\ Len(tokens) = 1
    /\ tokens[last.rec].updated_at > tokens[last.rec].created_at
    /\ decrypt(tokens[last.rec].access_token_encrypted) = AccessSecret(2)

\* C24: get_usage records no admission: it appends nothing to the key's
\* entries and leaves the admissions as they were; it answers with the number
\* of the key's entries inside the window, max_requests, the difference of
\* the two, and window_seconds; and is_allowed for the key at the same
\* instant answers the same, and leaves the same log, after the call as
\* it would have before it.
C24_UsageRecordsNothing ==
    [][ (last'.op = "get_usage")
          => LET k == last'.key
                 count == Cardinality(
                     {i \in 1..Len(EntriesOf(request_log, k)) :
                         EntriesOf(request_log, k)[i] > clock - window_seconds})
             IN  /\ admitted' = admitted
                 /\ Len(EntriesOf(request_log', k)) = count
                 /\ last'.requests_in_window = count
                 /\ last'.max_requests = max_requests
                 /\ last'.remaining = max_requests - count
                 /\ last'.window_seconds = window_seconds
                 /\ is_allowed(request_log', k, clock)
                        = is_allowed(request_log, k, clock) ]_vars

\* the usage of a key was asked after the first window had passed, with one
\* entry of the key inside the window
C24_Witness ==
    /\ last.op = "get_usage"
    /\ last.requests_in_window = 1
    /\ last.remaining = max_requests - 1
    /\ clock > window_seconds

\* C25: reset_user clears the key's history: from the state it leaves,
\* get_usage for the key reports 0 requests and max_requests remaining, and
\* is_allowed for the key admits with max_requests - 1 remaining, at the
\* instant of the reset and at every later one, the key at capacity before
\* the reset included; and the call that follows a reset of the key answers so.
C25_ResetClearsHistory ==
    [][ /\ (last'.op = "reset_user")
            => /\ EntriesOf(request_log', last'.key) = <<>>
               /\ \A now \in clock..MaxClockRL :
                     LET u == get_usage(request_log', last'.key, now)
                         a == is_allowed(request_log', last'.key, now)
                     IN  /\ u.requests_in_window = 0
                         /\ u.remaining = max_requests
                         /\ a.allowed
                         /\ a.remaining = max_requests - 1
        /\ (last.op = "reset_user" /\ last'.op = "get_usage"
              /\ last'.key = last.key)
            => /\ last'.requests_in_window = 0
               /\ last'.remaining = max_requests
        /\ (last.op = "reset_user" /\ last'.op = "is_allowed"
              /\ last'.key = last.key)
            => /\ last'.allowed
               /\ last'.remaining = max_requests - 1 ]_vars

\* a key at capacity, all its entries inside the window, was reset
C25_Witness ==
    /\ last.op = "reset_user"
    /\ last.cleared = max_requests
    /\ clock < window_seconds
    /\ last.key \notin DOMAIN request_log

\* the log with the entries of key k alone
OnlyKey(log, k) == [j \in DOMAIN log \cap {k} |-> log[j]]

\* C26: is_allowed, get_usage and reset_user for key k1 leave every other key
\* as it was, in the log or not and with the same entries, so that is_allowed
\* for another key k2 answers the same after the call as before it, now and
\* at every later instant; and what is_allowed answers for a key is what it
\* answers on the log with the entries of that key alone.
C26_KeysIndependent ==
    [][ (last'.op \in {"is_allowed", "get_usage", "reset_user"})
          => /\ \A k2 \in RLKeys \ {last'.key} :
                   /\ (k2 \in DOMAIN request_log') = (k2 \in DOMAIN request_log)
                   /\ EntriesOf(request_log', k2) = EntriesOf(request_log, k2)
                   /\ admitted'[k2] = admitted[k2]
                   /\ \A now \in clock..MaxClockRL :
                         LET before == is_allowed(request_log, k2, now)
                             after == is_allowed(request_log', k2, now)
                         IN  /\ after.allowed = before.allowed
                             /\ after.remaining = before.remaining
             /\ (last'.op = "is_allowed")
                   => LET alone == is_allowed(OnlyKey(request_log, last'.key),
                                              last'.key, clock)
                      IN  /\ last'.allowed = alone.allowed
                          /\ last'.remaining = alone.remaining ]_vars

\* one key was refused at capacity while the other key had room, and one key
\* was reset while the other had entries
C26_Witness ==
    /\ last.op = "is_allowed"
    /\ ~last.allowed
    /\ \E k2 \in RLKeys \ {last.key} :
          k2 \in DOMAIN request_log /\ Len(request_log[k2]) = 1

C26_WitnessReset ==
    /\ last.op = "reset_user"
    /\ last.cleared > 0
    /\ \E k2 \in RLKeys \ {last.key} :
          k2 \in DOMAIN request_log /\ Len(request_log[k2]) > 0

\* C27: an upstream call that times out (the token exchange, the refresh or
\* a data GET) surfaces to the caller as a classified upstream error: what
\* the operation raises is UpstreamUnavailableError, or at least one of the
\* client's own error classes.
C27_TimeoutClassified ==
    [][ ((last'.op \in StoreOps \/ (last'.op = "data" /\ last'.called))
           /\ last'.timeout)
          => last'.raised \in {"UpstreamUnavailableError", "DexcomAPIError",
                               "RateLimitError"} ]_vars

\* C28: when the process stops, or the commit fails, after store_tokens has
\* encrypted the new grant and made any number of its assignments, the table
\* is what it was before the call; and no row of the table ever mixes two
\* grants: its two secrets are those of one grant, and while it is not
\* revoked its expires_at is the instant of its last store plus its
\* expires_in.
C28_CommitAtomic ==
    [][ /\ (last'.op \in {"crash", "commit_failed"}) => (tokens' = tokens)
        /\ \A i \in 1..Len(tokens') :
              /\ \E n \in 1..issued' :
                    /\ decrypt(tokens'[i].access_token_encrypted) = AccessSecret(n)
                    /\ decrypt(tokens'[i].refresh_token_encrypted) = RefreshSecret(n)
              /\ ~tokens'[i].is_revoked
                    => tokens'[i].expires_at
                          = tokens'[i].updated_at + tokens'[i].expires_in ]_vars

\* the process stopped with the new access secret assigned to the row of an
\* earlier grant and the new refresh secret not yet, at a later instant
C28_Witness ==
    /\ last.op = "crash"
    /\ last.rec # 0
    /\ last.assigned = 1
    /\ ~tokens[last.rec].is_revoked
    /\ clock > tokens[last.rec].updated_at
    /\ issued = 2
    /\ decrypt(tokens[last.rec].access_token_encrypted) = AccessSecret(1)

\* C29: a refresh in flight for a principal does not keep a second refresh
\* for the same principal from starting: whenever the principal has a
\* non-revoked row and a handler can still be started, the refresh handler
\* can run up to its upstream call, a refresh of the same principal in
\* flight or not; so two of them can be in flight with the same stored
\* refresh secret.
C29_NoRefreshExclusion ==
    \A p \in Principals :
        (NonRevoked(tokens, p) # {} /\ BagCardinality(reqs) < MaxRefreshes)
           => ENABLED RefreshStartUpTo(p, MaxRefreshes)

\* two refreshes of one principal are in flight, both with the refresh secret
\* that is stored in the principal's row
C29_Witness ==
    \E r \in InFlight(reqs) :
        /\ r.pc = "refresh"
        /\ CopiesIn(r, reqs) = 2
        /\ \E i \in NonRevoked(tokens, r.user) :
              decrypt(tokens[i].refresh_token_encrypted) = r.refresh_token

\* C30: when the upstream answers an authorization-code exchange with a
\* non-200 status, the exchange raises DexcomAPIError with that status, the
\* exchange endpoint answers with it, and the handler leaves the users and
\* the rows of dexcom_tokens as they were and takes no grant.
C30_ExchangeFailure ==
    [][ (last'.op \in {"exchange", "callback"} /\ ~last'.ok /\ ~last'.timeout)
          => /\ last'.upstream # 200
             /\ last'.raised = "DexcomAPIError"
             /\ last'.error_status = last'.upstream
             /\ (last'.op = "exchange") => (last'.status = last'.upstream)
             /\ UNCHANGED <<users, tokens, issued>> ]_vars

\* an exchange failed with 400 while a row of an earlier grant was stored
C30_Witness ==
    /\ last.op = "exchange"
    /\ ~last.ok
    /\ ~last.timeout
    /\ last.upstream = 400
    /\ last.status = 400
    /\ Len(tokens) = 1
    /\ Len(users) = 1

\* C31: once a principal's rows are revoked, the principal has no non-revoked
\* row again until an authorization-code exchange stores a grant for it; a
\* refresh that read the refresh secret before the revoke and stores its
\* grant after it does not make the principal authorized again.
C31_RevokedIsTerminal ==
    [][ \A p \in Principals :
          ( /\ \E i \in 1..Len(tokens) :
                  tokens[i].user_id = p /\ tokens[i].is_revoked
            /\ NonRevoked(tokens, p) = {}
            /\ NonRevoked(tokens', p) # {} )
          => ( /\ last'.op \in {"exchange", "callback"}
               /\ last'.ok
               /\ last'.user_id = p ) ]_vars

\* the users that rows of dexcom_tokens belong to
Owners(toks) == {toks[i].user_id : i \in 1..Len(toks)}

\* C32: in every reachable state, whatever the interleaving of exchanges,
\* refreshes, get_valid_token calls and revokes at their upstream calls,
\* every user has at most one non-revoked row.
C32_AtMostOneNonRevoked ==
    \A p \in Principals \cup Owners(tokens) :
        Cardinality(NonRevoked(tokens, p)) <= 1

\* a refresh has stored its grant while a second refresh of the same user is
\* still in flight, and a refresh has stored its grant after a revoke
C32_Witness ==
    /\ last.op = "refresh"
    /\ last.ok
    /\ \E r \in InFlight(reqs) : r.pc = "refresh" /\ r.user = last.user
    /\ Cardinality(NonRevoked(tokens, last.user)) = 1

C32_WitnessRevoked ==
    /\ last.op = "refresh"
    /\ last.ok
    /\ \E i \in 1..Len(tokens) :
          tokens[i].user_id = last.user /\ tokens[i].is_revoked
    /\ Cardinality(NonRevoked(tokens, last.user)) = 1

\* the number of the grant a row holds: the upstream numbers its grants in
\* the order it issues them
GrantNo(row) ==
    CHOOSE n \in 1..(MaxAnswers + 1) :
        decrypt(row.refresh_token_encrypted) = RefreshSecret(n)

\* C33: a refresh never writes an earlier grant over a later one: the grant
\* a refresh stores into a row was issued after the grant the row held, so
\* that after concurrent refreshes the row holds the grant issued last.
C33_LastGrantWins ==
    [][ (last'.op = "refresh" /\ last'.ok /\ last'.updated)
          => GrantNo(tokens'[last'.rec]) > GrantNo(tokens[last'.rec]) ]_vars

\* C34: a request to a ranged data handler whose range is longer than 30
\* days is answered 400, for the range, before any network call of the
\* request, the refresh of the token included: no refresh is attempted,
\* whatever the rows of the user.
C34_RangeBeforeRefresh ==
    [][ ( /\ last'.op = "data"
          /\ ~last'.called
          /\ last'.user # 0
          /\ last'.endpoint \in RangedOps
          /\ last'.range[2] - last'.range[1] > ThirtyDays )
        => ( /\ last'.status = 400
             /\ last'.raised = "ValueError"
             /\ last'.attempts = 0 ) ]_vars

\* C35: in every reachable state the queries of get_valid_token (ordered by
\* created_at, latest first), of get_refresh_token, get_token_info and
\* store_tokens (first match, no order) answer with the same row for a user:
\* the one non-revoked row that is latest by created_at, or with none.
C35_SameCurrentRecord ==
    \A p \in Principals \cup Owners(tokens) :
        /\ RowOrNone(FirstRows(tokens, p)) = RowOrNone(LatestRows(tokens, p))
        /\ \E row \in 0..Len(tokens) :
              /\ RowOrNone(LatestRows(tokens, p)) = {row}
              /\ row # 0 =>
                    /\ tokens[row].user_id = p
                    /\ ~tokens[row].is_revoked
                    /\ \A j \in 1..Len(tokens) :
                          (tokens[j].user_id = p /\ ~tokens[j].is_revoked)
                             => tokens[j].created_at <= tokens[row].created_at

\* a user has a revoked row and a later non-revoked one
C35_Witness ==
    \E i, j \in 1..Len(tokens) :
        /\ tokens[i].user_id = tokens[j].user_id
        /\ tokens[i].is_revoked
        /\ ~tokens[j].is_revoked
        /\ tokens[j].created_at > tokens[i].created_at

\* the entries of a key that are no older than now - W, the one at exactly
\* now - W included, and those strictly newer
CountFrom(log, k, now) ==
    Cardinality({i \in 1..Len(EntriesOf(log, k)) :
                    EntriesOf(log, k)[i] >= now - window_seconds})

CountAfter(log, k, now) ==
    Cardinality({i \in 1..Len(EntriesOf(log, k)) :
                    EntriesOf(log, k)[i] > now - window_seconds})

\* C36: is_allowed and get_usage prune only entries strictly older than
\* now - W: an entry at exactly now - W still counts, so is_allowed refuses a
\* key that has max_requests entries no older than now - W, and get_usage
\* counts them.
C36_BoundaryCounted ==
    [][ /\ (last'.op = "is_allowed"
              /\ CountFrom(request_log, last'.key, clock) >= max_requests)
           => ~last'.allowed
        /\ (last'.op = "get_usage")
           => last'.requests_in_window = CountFrom(request_log, last'.key, clock)
      ]_vars

\* C36 as the code has it: is_allowed and get_usage keep the entries strictly
\* newer than now - W and drop the entry at exactly now - W; is_allowed
\* admits exactly when fewer than max_requests entries are strictly newer,
\* so a key at capacity is admitted W seconds after its oldest entry.
C36_BoundaryPruned ==
    [][ /\ (last'.op \in {"is_allowed", "get_usage"})
           => \A i \in 1..Len(EntriesOf(request_log', last'.key)) :
                 EntriesOf(request_log', last'.key)[i] > clock - window_seconds
        /\ (last'.op = "is_allowed")
           => /\ last'.allowed
                    = (CountAfter(request_log, last'.key, clock) < max_requests)
              /\ last'.dropped
                    = Len(EntriesOf(request_log, last'.key))
                        - CountAfter(request_log, last'.key, clock)
        /\ (last'.op = "get_usage")
           => last'.requests_in_window
                 = CountAfter(request_log, last'.key, clock) ]_vars

\* a key with max_requests entries at instant 0 is admitted at instant W
C36_Witness ==
    /\ last.op = "is_allowed"
    /\ last.allowed
    /\ last.dropped = max_requests
    /\ clock = window_seconds
    /\ last.remaining = max_requests - 1

\* C37: get_valid_token on a non-revoked row that is not within the 300 s
\* threshold (now < expires_at - 300) returns the decrypted access secret
\* that is stored, together with the row, attempts no refresh, makes no
\* upstream call and changes no row.
C37_FreshTokenReturned ==
    [][ ( /\ last'.op = "get_valid_token"
          /\ last'.result.rec # 0
          /\ clock < tokens[last'.result.rec].expires_at - 300 )
        => ( /\ last'.result.status = 200
             /\ last'.result.access
                    = decrypt(tokens[last'.result.rec].access_token_encrypted)
             /\ \E n \in 1..issued : last'.result.access = AccessSecret(n)
             /\ last'.result.rec \in LatestRows(tokens, last'.user)
             /\ last'.result.attempts = 0
             /\ ~last'.result.called
             /\ UNCHANGED <<tokens, users, issued, reqs>> ) ]_vars

\* a fresh row was asked for with auto_refresh, after a refresh had stored
\* the second grant into it
C37_Witness ==
    /\ last.op = "get_valid_token"
    /\ last.auto
    /\ last.result.status = 200
    /\ last.result.rec # 0
    /\ clock < tokens[last.result.rec].expires_at - 300
    /\ last.result.access = AccessSecret(2)

\* C38: get_valid_token with auto_refresh = False attempts no refresh, makes
\* no upstream call and changes no row; for a user with a non-revoked row it
\* returns the stored access secret, the row expired or not, and raises no
\* 401.
C38_NoAutoRefresh ==
    [][ (last'.op = "get_valid_token" /\ ~last'.auto)
        => ( /\ last'.result.attempts = 0
             /\ ~last'.result.called
             /\ UNCHANGED <<tokens, users, issued, reqs>>
             /\ (NonRevoked(tokens, last'.user) # {})
                   => /\ last'.result.rec \in NonRevoked(tokens, last'.user)
                      /\ last'.result.status = 200
                      /\ last'.result.access
                            = decrypt(tokens[last'.result.rec].access_token_encrypted)
                      /\ \E n \in 1..issued :
                            last'.result.access = AccessSecret(n) ) ]_vars

\* an expired row was asked for with auto_refresh = False
C38_Witness ==
    /\ last.op = "get_valid_token"
    /\ ~last.auto
    /\ last.result.rec # 0
    /\ is_expired(tokens[last.result.rec], clock)
    /\ last.result.status = 200
    /\ last.result.access = AccessSecret(1)

\* C39: a data handler sends one authenticated GET at most and asks the
\* upstream for a refresh once at most.  The step that sends the GET suspends
\* exactly one handler; the step that takes the upstream's answer, whatever
\* the status and also on a timeout, ends that handler and sends nothing
\* again; a handler that answers without a GET attempted one refresh at most;
\* and no step of a data handler leaves a refresh call in flight, has a grant
\* issued or writes a row.
C39_NoRetry ==
    [][ /\ (last'.op = "data_call")
            => /\ reqs' = Suspend(reqs, [pc |-> "data", user |-> last'.user,
                                         state |-> "None", refresh_token |-> <<>>])
               /\ BagCardinality(reqs') = BagCardinality(reqs) + 1
               /\ UNCHANGED <<tokens, issued>>
        /\ (last'.op = "data")
            => /\ UNCHANGED <<tokens, issued>>
               /\ \A q \in InFlight(reqs') : q \in InFlight(reqs)
               /\ IF last'.called
                  THEN /\ \E r \in InFlight(reqs) :
                             /\ r.pc = "data"
                             /\ r.user = last'.user
                             /\ reqs' = Resume(reqs, r)
                       /\ BagCardinality(reqs') = BagCardinality(reqs) - 1
                  ELSE /\ reqs' = reqs
                       /\ last'.attempts \in {0, 1} ]_vars

\* the upstream answered the GET with an error and the handler is over
C39_Witness ==
    /\ last.op = "data"
    /\ last.called
    /\ last.upstream = 500
    /\ last.status = 500
    /\ reqs = EmptyBag

\* the refresh inside get_valid_token was attempted, once, and the handler is
\* over with no call in flight
C39_WitnessRefresh ==
    /\ last.op = "data"
    /\ ~last.called
    /\ last.attempts = 1
    /\ reqs = EmptyBag

====
